---- MODULE Spec2Model ----
(***************************************************************************)
(* The resume patch engine (applyResumePatch) as a state machine.          *)
(*                                                                         *)
(* JavaScript objects and arrays live in a heap of nodes addressed by      *)
(* number, so that sharing between the caller's target, the caller's patch *)
(* values and the working copy is part of the state.  One call of          *)
(* applyResumePatch is one behaviour: Init is the state right after        *)
(* structuredClone(input.target); every iteration of the operation loop is *)
(* one step (the batch is revealed one operation at a time and recorded in *)
(* patch); Finish is the layout synchronisation and the schema gate.       *)
(***************************************************************************)
EXTENDS Integers, Sequences, FiniteSets, TLC

VARIABLES
    heap,                       \* the JavaScript heap
    next,                       \* the working copy (root of the clone)
    patch,                      \* the operations consumed so far
    flags,                      \* patchFlags
    originalCustomSectionIds,   \* ids of the target's custom sections at entry
    gen,                        \* number of ids generateId has handed out
    status,                     \* "running", "failed" or "returned"
    err,                        \* the error thrown, OK while none
    result,                     \* the returned document, Undef while none
    tix,                        \* which of the targets the caller supplied
    request,                    \* the PATCH request the route handler received
    trace,                      \* what the route handler has done so far, in order
    response,                   \* the handler's response, NoResponse while none
    drafts,                     \* the draft table, one row per id handed out
    calls,                      \* the draftService call of each caller
    ncalls,                     \* how many draftService calls have been made
    given,                      \* the list and the ids handed to reorderItems
    reordered                   \* what reorderItems returned, NotCalled before

engineVars == <<heap, next, patch, flags, originalCustomSectionIds, gen, status, err, result, tix>>
handlerVars == <<request, trace, response>>
draftVars == <<drafts, calls, ncalls>>
reorderVars == <<given, reordered>>
vars == <<engineVars, handlerVars, draftVars, reorderVars>>

\* The values of the variables of a part of the program that is not running.
NoRequest == [none |-> TRUE]
NoResponse == [none |-> TRUE]
NotCalled == [called |-> FALSE, items |-> <<>>]
Callers == {"c1", "c2"}
NoData == [none |-> TRUE]
NoResult == [kind |-> "none", id |-> 0, data |-> NoData, ids |-> {}]
Idle ==
    [pc |-> "idle", op |-> "none", id |-> 0, userId |-> "none", operations |-> <<>>,
     current |-> NoData, outcome |-> "none", result |-> NoResult]
HandlerIdle == request = NoRequest /\ trace = <<>> /\ response = NoResponse
DraftIdle == drafts = <<>> /\ calls = [c \in Callers |-> Idle] /\ ncalls = 0
ReorderIdle == given = [items |-> <<>>, ids |-> <<>>] /\ reordered = NotCalled

(***************************************************************************)
(* Bounds of the model.                                                    *)
(***************************************************************************)
MaxOps == 2

(***************************************************************************)
(* JavaScript values.  A value is a primitive or a reference into heap.    *)
(***************************************************************************)
Str(s) == [t |-> "str", s |-> s, r |-> 0]
Num(s) == [t |-> "num", s |-> s, r |-> 0]
Bool(b) == [t |-> "bool", s |-> IF b THEN "true" ELSE "false", r |-> 0]
Null == [t |-> "null", s |-> "", r |-> 0]
Undef == [t |-> "undef", s |-> "", r |-> 0]
Fn == [t |-> "fn", s |-> "", r |-> 0]
Ref(a) == [t |-> "ref", s |-> "", r |-> a]

\* The caller's target is node 1 of the heap.
TargetRoot == Ref(1)

Obj(f) == [k |-> "obj", o |-> f, a |-> <<>>]
Arr(e) == [k |-> "arr", o |-> <<>>, a |-> e]
EmptyFields == [z \in {} |-> Undef]
\* The value of a const binding: { body : x \in {e} } evaluates e once for
\* every use of x in body.
The(S) == CHOOSE x \in S : TRUE

IsRef(v) == v.t = "ref"
IsArray(h, v) == IsRef(v) /\ h[v.r].k = "arr"
IsObject(h, v) == IsRef(v) /\ h[v.r].k = "obj"
IsNullish(v) == v.t \in {"null", "undef"}
Elems(h, v) == h[v.r].a
Fields(h, v) == h[v.r].o

\* Keys every plain object inherits from Object.prototype (the `in`
\* operator sees them); the forbidden ones are listed with the others.
InheritedKeys == {"toString", "valueOf", "hasOwnProperty", "constructor", "__proto__"}

\* `key in obj` for a plain object.
HasKey(h, v, key) == key \in DOMAIN Fields(h, v) \/ key \in InheritedKeys

\* obj[key] for a plain object.
GetKey(h, v, key) ==
    IF key \in DOMAIN Fields(h, v) THEN Fields(h, v)[key]
    ELSE IF key \in InheritedKeys THEN Fn
    ELSE Undef

\* value.key with no optional chaining: reading a property of null or
\* undefined throws a TypeError (reported by PropThrows).
PropThrows(v) == IsNullish(v)
Prop(h, v, key) ==
    IF IsObject(h, v) THEN GetKey(h, v, key)
    ELSE IF IsArray(h, v) /\ key \in {"map", "filter", "findIndex", "push"} THEN Fn
    ELSE Undef

SetField(node, key, v) ==
    [node EXCEPT !.o = [x \in DOMAIN node.o \cup {key} |-> IF x = key THEN v ELSE node.o[x]]]
DelField(node, key) ==
    [node EXCEPT !.o = [x \in DOMAIN node.o \ {key} |-> node.o[x]]]
InsertAt(s, i, v) == SubSeq(s, 1, i) \o <<v>> \o SubSeq(s, i + 1, Len(s))
RemoveAt(s, i) == SubSeq(s, 1, i) \o SubSeq(s, i + 2, Len(s))

(***************************************************************************)
(* Reachability, structuredClone and fast-deep-equal.                      *)
(***************************************************************************)
Children(node) ==
    IF node.k = "arr" THEN {node.a[i].r : i \in {j \in DOMAIN node.a : node.a[j].t = "ref"}}
    ELSE {node.o[x].r : x \in {y \in DOMAIN node.o : node.o[y].t = "ref"}}

RECURSIVE ReachFrom(_, _, _)
ReachFrom(h, frontier, seen) ==
    IF frontier = {} THEN seen
    ELSE LET new == UNION {Children(h[a]) : a \in frontier} \ (seen \cup frontier)
         IN ReachFrom(h, new, seen \cup frontier)

Reach(h, v) == IF IsRef(v) THEN ReachFrom(h, {v.r}, {}) ELSE {}

RECURSIVE SortedSeq(_)
SortedSeq(S) ==
    IF S = {} THEN <<>>
    ELSE LET m == CHOOSE x \in S : \A y \in S : x <= y
         IN <<m>> \o SortedSeq(S \ {m})

Rebase(v, f) == IF v.t = "ref" THEN Ref(f[v.r]) ELSE v
RebaseNode(node, f) ==
    IF node.k = "arr" THEN Arr([i \in DOMAIN node.a |-> Rebase(node.a[i], f)])
    ELSE Obj([x \in DOMAIN node.o |-> Rebase(node.o[x], f)])

\* structuredClone(v): a copy of everything reachable from v, sharing preserved
\* inside the copy and nothing shared with the source.
structuredCloneAlias(h, v) == [h |-> h, v |-> v]
structuredClone(h, v) ==
    IF ~IsRef(v) THEN [h |-> h, v |-> v]
    ELSE LET order == SortedSeq(Reach(h, v))
             f == [a \in Reach(h, v) |-> Len(h) + (CHOOSE i \in DOMAIN order : order[i] = a)]
         IN [h |-> h \o [i \in DOMAIN order |-> RebaseNode(h[order[i]], f)],
             v |-> Ref(f[v.r])]

\* isDeepEqual(a, b) of fast-deep-equal, a in heap h1 and b in heap h2.
RECURSIVE DeepEq(_, _, _, _)
DeepEq(h1, v1, h2, v2) ==
    IF ~IsRef(v1) \/ ~IsRef(v2) THEN v1 = v2
    ELSE LET n1 == h1[v1.r]
             n2 == h2[v2.r]
         IN IF n1.k # n2.k THEN FALSE
            ELSE IF n1.k = "arr"
                 THEN /\ Len(n1.a) = Len(n2.a)
                      /\ \A i \in DOMAIN n1.a : DeepEq(h1, n1.a[i], h2, n2.a[i])
                 ELSE /\ DOMAIN n1.o = DOMAIN n2.o
                      /\ \A x \in DOMAIN n1.o : DeepEq(h1, n1.o[x], h2, n2.o[x])

isDeepEqual(h, v1, v2) == (IsRef(v1) /\ IsRef(v2) /\ v1.r = v2.r) \/ DeepEq(h, v1, h, v2)

(***************************************************************************)
(* Program constants.                                                      *)
(***************************************************************************)
forbiddenPathSegments == {"__proto__", "prototype", "constructor"}
topLevelPaths == {"name", "slug", "tags", "isPublic"}
\* No top-level field is protected from removal.
nonRemovableTopLevelPathsNone == {}
nonRemovableTopLevelPaths == {"name", "slug", "tags", "isPublic"}
\* The set without profiles, whose items have a website and an icon.
sectionsWithWebsiteShort ==
    {"awards", "certifications", "education", "experience", "projects",
     "publications", "references", "volunteer"}
sectionsWithWebsite ==
    {"awards", "certifications", "education", "experience", "projects",
     "publications", "references", "volunteer", "profiles"}
sectionsWithIcon == {"profiles", "skills", "interests"}
sectionTypeSchema ==
    {"profiles", "experience", "education", "projects", "skills", "languages",
     "interests", "awards", "certifications", "publications", "volunteer", "references"}
allowedLayoutIds == {"summary"} \cup sectionTypeSchema

OK == "ok"
INVALID_PATCH_PATH == "INVALID_PATCH_PATH"
PATCH_TARGET_NOT_FOUND == "PATCH_TARGET_NOT_FOUND"
PATCH_CONFLICT == "PATCH_CONFLICT"
INVALID_PATCH == "INVALID_PATCH"
TypeError == "TypeError"
ORPCErrorCodes == {INVALID_PATCH_PATH, PATCH_TARGET_NOT_FOUND, PATCH_CONFLICT, INVALID_PATCH}

(***************************************************************************)
(* Path grammar.  A pointer string is its leading-slash flag and its raw   *)
(* segments; strings are opaque, so the character-level functions are      *)
(* tables over the segments the model uses.                                *)
(***************************************************************************)
\* segment.replaceAll("~1", "/").replaceAll("~0", "~")
Unescape(seg) ==
    CASE seg = "~1" -> "/"
      [] seg = "~0" -> "~"
      [] seg = "~01" -> "~1"
      [] seg = "x~1y" -> "x/y"
      [] OTHER -> seg

\* The digit strings of the model and Number(segment) for each.
IndexTokens == <<"0", "1", "2", "3", "4", "5", "6", "7", "8", "9">>
isArrayIndex(seg) == \E i \in DOMAIN IndexTokens : IndexTokens[i] = seg
NumberOf(seg) == (CHOOSE i \in DOMAIN IndexTokens : IndexTokens[i] = seg) - 1
\* String(index)
StringOf(n) == IndexTokens[n + 1]
\* toArrayIndex(segment): -1 stands for null.
toArrayIndex(seg) == IF isArrayIndex(seg) THEN NumberOf(seg) ELSE -1

shouldResolveIdDigits(seg) == seg # "-" /\ seg # "id"
shouldResolveId(seg) == seg # "-" /\ seg # "id" /\ ~isArrayIndex(seg)

\* pathSegments[i] with JavaScript's zero-based index; NoSeg is undefined.
NoSeg == "<undefined>"
Seg(segs, i) == IF i + 1 <= Len(segs) THEN segs[i + 1] ELSE NoSeg

parseJsonPointer(path) ==
    IF ~path.abs THEN [err |-> INVALID_PATCH_PATH, segs |-> <<>>]
    ELSE [err |-> OK, segs |-> [i \in DOMAIN path.raw |-> Unescape(path.raw[i])]]

validatePatchPathNoGuard(segs, opKind, forFrom) ==
    IF Len(segs) = 0 THEN INVALID_PATCH_PATH
    ELSE IF segs[1] = "data" THEN OK
    ELSE IF segs[1] \in topLevelPaths /\ Len(segs) = 1
         THEN LET effectiveOp == IF forFrom THEN "remove" ELSE opKind
              IN IF effectiveOp = "remove" /\ segs[1] \in nonRemovableTopLevelPaths
                 THEN INVALID_PATCH_PATH
                 ELSE OK
    ELSE IF segs[1] = "tags" THEN OK
    ELSE INVALID_PATCH_PATH

validatePatchPath(segs, opKind, forFrom) ==
    IF Len(segs) = 0 THEN INVALID_PATCH_PATH
    ELSE IF \E i \in DOMAIN segs : segs[i] \in forbiddenPathSegments THEN INVALID_PATCH_PATH
    ELSE IF segs[1] = "data" THEN OK
    ELSE IF segs[1] \in topLevelPaths /\ Len(segs) = 1
         THEN LET effectiveOp == IF forFrom THEN "remove" ELSE opKind
              IN IF effectiveOp = "remove" /\ segs[1] \in nonRemovableTopLevelPaths
                 THEN INVALID_PATCH_PATH
                 ELSE OK
    ELSE IF segs[1] = "tags" THEN OK
    ELSE INVALID_PATCH_PATH

(***************************************************************************)
(* Path resolver: ids to indices.                                          *)
(***************************************************************************)
\* items.findIndex((item) => item.id === id): the index, -1, or a TypeError
\* when items has no findIndex or an element before the match is null.
findIndexById(h, items, id) ==
    IF ~IsArray(h, items) THEN [err |-> TypeError, index |-> -1]
    ELSE LET es == Elems(h, items)
             hits == {i \in DOMAIN es : PropThrows(es[i]) \/ Prop(h, es[i], "id") = Str(id)}
         IN IF hits = {} THEN [err |-> OK, index |-> -1]
            ELSE LET first == CHOOSE i \in hits : \A j \in hits : i <= j
                 IN IF PropThrows(es[first]) THEN [err |-> TypeError, index |-> -1]
                    ELSE [err |-> OK, index |-> first - 1]

\* Replace count segments at zero-based position pos by one segment.
Splice(segs, pos, count, seg) ==
    SubSeq(segs, 1, pos) \o <<seg>> \o SubSeq(segs, pos + count + 1, Len(segs))

resolveItemsByIdLenient(h, segs, itemSegmentIndex, items) ==
    LET itemSegment == Seg(segs, itemSegmentIndex)
        itemId == Seg(segs, itemSegmentIndex + 1)
    IN IF itemSegment = "id"
       THEN IF itemId = NoSeg \/ itemId = "" THEN [err |-> INVALID_PATCH_PATH, segs |-> segs]
            ELSE LET f == findIndexById(h, items, itemId)
                 IN IF f.err # OK THEN [err |-> f.err, segs |-> segs]
                    ELSE IF f.index = -1 THEN [err |-> OK, segs |-> Splice(segs, itemSegmentIndex, 2, "-")]
                    ELSE [err |-> OK, segs |-> Splice(segs, itemSegmentIndex, 2, StringOf(f.index))]
       ELSE IF shouldResolveId(itemSegment)
       THEN LET f == findIndexById(h, items, itemSegment)
            IN IF f.err # OK THEN [err |-> f.err, segs |-> segs]
               ELSE IF f.index = -1 THEN [err |-> OK, segs |-> Splice(segs, itemSegmentIndex, 1, "-")]
               ELSE [err |-> OK, segs |-> Splice(segs, itemSegmentIndex, 1, StringOf(f.index))]
       ELSE [err |-> OK, segs |-> segs]

resolveItemsById(h, segs, itemSegmentIndex, items) ==
    LET itemSegment == Seg(segs, itemSegmentIndex)
        itemId == Seg(segs, itemSegmentIndex + 1)
    IN IF itemSegment = "id"
       THEN IF itemId = NoSeg \/ itemId = "" THEN [err |-> INVALID_PATCH_PATH, segs |-> segs]
            ELSE LET f == findIndexById(h, items, itemId)
                 IN IF f.err # OK THEN [err |-> f.err, segs |-> segs]
                    ELSE IF f.index = -1 THEN [err |-> PATCH_TARGET_NOT_FOUND, segs |-> segs]
                    ELSE [err |-> OK, segs |-> Splice(segs, itemSegmentIndex, 2, StringOf(f.index))]
       ELSE IF shouldResolveId(itemSegment)
       THEN LET f == findIndexById(h, items, itemSegment)
            IN IF f.err # OK THEN [err |-> f.err, segs |-> segs]
               ELSE IF f.index = -1 THEN [err |-> PATCH_TARGET_NOT_FOUND, segs |-> segs]
               ELSE [err |-> OK, segs |-> Splice(segs, itemSegmentIndex, 1, StringOf(f.index))]
       ELSE [err |-> OK, segs |-> segs]

\* value[index] for a zero-based index (-1 is NaN); the caller has checked
\* that value is not null or undefined.
ElementAt(h, v, index) ==
    IF IsArray(h, v)
    THEN IF index >= 0 /\ index < Len(Elems(h, v)) THEN Elems(h, v)[index + 1] ELSE Undef
    ELSE IF IsObject(h, v) /\ index >= 0 THEN GetKey(h, v, StringOf(index))
    ELSE Undef

\* !value
Falsy(v) == IsNullish(v) \/ v = Bool(FALSE) \/ v = Str("") \/ v = Num("0")

resolveCustomItems(h, segs, data) ==
    IF Seg(segs, 3) = "items" /\ Len(segs) >= 5
    THEN LET cs == Prop(h, data, "customSections")
             section == ElementAt(h, cs, toArrayIndex(Seg(segs, 2)))
         IN IF PropThrows(cs) THEN [err |-> TypeError, segs |-> segs]
            ELSE IF Falsy(section) THEN [err |-> PATCH_TARGET_NOT_FOUND, segs |-> segs]
            ELSE resolveItemsById(h, segs, 4, Prop(h, section, "items"))
    ELSE [err |-> OK, segs |-> segs]

resolveById(h, segs, data) ==
    IF Seg(segs, 0) # "data" THEN [err |-> OK, segs |-> segs]
    ELSE IF Seg(segs, 1) = "sections"
    THEN LET sectionType == Seg(segs, 2)
         IN IF sectionType \notin sectionTypeSchema THEN [err |-> INVALID_PATCH_PATH, segs |-> segs]
            ELSE IF Seg(segs, 3) = "items" /\ Len(segs) >= 5
            THEN LET sections == Prop(h, data, "sections")
                     section == Prop(h, sections, sectionType)
                     items == IF IsNullish(section) THEN Undef ELSE Prop(h, section, "items")
                 IN IF PropThrows(data) \/ PropThrows(sections) THEN [err |-> TypeError, segs |-> segs]
                    ELSE IF IsNullish(items)
                    THEN \* `?? []`: an id looked up in the empty list is absent
                         IF Seg(segs, 4) = "id" /\ Seg(segs, 5) \in {NoSeg, ""}
                         THEN [err |-> INVALID_PATCH_PATH, segs |-> segs]
                         ELSE IF Seg(segs, 4) = "id" \/ shouldResolveId(Seg(segs, 4))
                         THEN [err |-> PATCH_TARGET_NOT_FOUND, segs |-> segs]
                         ELSE [err |-> OK, segs |-> segs]
                    ELSE resolveItemsById(h, segs, 4, items)
            ELSE [err |-> OK, segs |-> segs]
    ELSE IF Seg(segs, 1) = "customSections" /\ Len(segs) >= 3
    THEN LET customSectionSegment == Seg(segs, 2)
             cs == Prop(h, data, "customSections")
         IN IF customSectionSegment = "id"
            THEN IF Seg(segs, 3) \in {NoSeg, ""} THEN [err |-> INVALID_PATCH_PATH, segs |-> segs]
                 ELSE IF PropThrows(data) \/ PropThrows(cs) THEN [err |-> TypeError, segs |-> segs]
                 ELSE LET f == findIndexById(h, cs, Seg(segs, 3))
                      IN IF f.err # OK THEN [err |-> f.err, segs |-> segs]
                         ELSE IF f.index = -1 THEN [err |-> PATCH_TARGET_NOT_FOUND, segs |-> segs]
                         ELSE resolveCustomItems(h, Splice(segs, 2, 2, StringOf(f.index)), data)
            ELSE IF shouldResolveId(customSectionSegment)
            THEN IF PropThrows(data) \/ PropThrows(cs) THEN [err |-> TypeError, segs |-> segs]
                 ELSE LET f == findIndexById(h, cs, customSectionSegment)
                      IN IF f.err # OK THEN [err |-> f.err, segs |-> segs]
                         ELSE IF f.index = -1 THEN [err |-> PATCH_TARGET_NOT_FOUND, segs |-> segs]
                         ELSE resolveCustomItems(h, Splice(segs, 2, 1, StringOf(f.index)), data)
            ELSE IF PropThrows(data) /\ Seg(segs, 3) = "items" /\ Len(segs) >= 5
            THEN [err |-> TypeError, segs |-> segs]
            ELSE resolveCustomItems(h, segs, data)
    ELSE [err |-> OK, segs |-> segs]

resolvePatchPathStale(h, path, opKind, target, forFrom) ==
    LET parsed == parseJsonPointer(path)
        valid == validatePatchPath(parsed.segs, opKind, forFrom)
    IN IF parsed.err # OK THEN [err |-> parsed.err, segs |-> <<>>]
       ELSE IF valid # OK THEN [err |-> valid, segs |-> parsed.segs]
       ELSE resolveById(h, parsed.segs, Prop(h, TargetRoot, "data"))

\* resolvePatchPath(path, op, target, {forFrom})
resolvePatchPath(h, path, opKind, target, forFrom) ==
    LET parsed == parseJsonPointer(path)
        valid == validatePatchPath(parsed.segs, opKind, forFrom)
    IN IF parsed.err # OK THEN [err |-> parsed.err, segs |-> <<>>]
       ELSE IF valid # OK THEN [err |-> valid, segs |-> parsed.segs]
       ELSE resolveById(h, parsed.segs, Prop(h, target, "data"))

(***************************************************************************)
(* Value normalizer.  Every function threads the heap and the id counter   *)
(* and returns [h, gen, v].                                                *)
(***************************************************************************)
\* generateId(): fresh ids, never equal to an id of the documents.
GenIds == <<"g1", "g2", "g3", "g4", "g5", "g6", "g7", "g8", "g9", "g10", "g11", "g12">>
MaxGenPerOp == 3
generateId(g) == Str(GenIds[g + 1])

Put(f, key, v) == [x \in DOMAIN f \cup {key} |-> IF x = key THEN v ELSE f[x]]
\* item.key !== undefined
Defined(f, key) == key \in DOMAIN f /\ f[key] # Undef
\* a ?? b
Coalesce(a, b) == IF IsNullish(a) THEN b ELSE a
\* set.has(sectionType)
InTypes(sectionType, S) == sectionType.t = "str" /\ sectionType.s \in S

\* normalizeItem that fills omitted fields with the defaults whatever the
\* existing value carries.
normalizeItemDropExisting(h, g, sectionType, value, existingValue) ==
    IF ~IsObject(h, value) THEN [h |-> h, gen |-> g, v |-> value]
    ELSE LET src == Fields(h, value)
             needWebsite == InTypes(sectionType, sectionsWithWebsite) /\ ~Defined(src, "website")
             f1 == IF Defined(src, "id") THEN src ELSE Put(src, "id", generateId(g))
             f2 == IF Defined(src, "hidden") THEN f1 ELSE Put(f1, "hidden", Bool(FALSE))
             f3 == IF needWebsite THEN Put(f2, "website", Ref(Len(h) + 2)) ELSE f2
             f4 == IF InTypes(sectionType, sectionsWithIcon) /\ ~Defined(src, "icon")
                   THEN Put(f3, "icon", Str(""))
                   ELSE f3
         IN [h |-> h \o <<Obj(f4)>>
                    \o (IF needWebsite THEN <<Obj([url |-> Str(""), label |-> Str("")])>> ELSE <<>>),
             gen |-> IF Defined(src, "id") THEN g ELSE g + 1,
             v |-> Ref(Len(h) + 1)]

normalizeItem(h, g, sectionType, value, existingValue) ==
    IF ~IsObject(h, value) THEN [h |-> h, gen |-> g, v |-> value]
    ELSE LET hasExisting == IsObject(h, existingValue)
             ex(key) == IF hasExisting THEN GetKey(h, existingValue, key) ELSE Undef
             src == Fields(h, value)
             needId == ~Defined(src, "id") /\ IsNullish(ex("id"))
             needWebsite == /\ InTypes(sectionType, sectionsWithWebsite)
                            /\ ~Defined(src, "website")
                            /\ IsNullish(ex("website"))
             f1 == IF Defined(src, "id") THEN src
                   ELSE Put(src, "id", Coalesce(ex("id"), generateId(g)))
             f2 == IF Defined(src, "hidden") THEN f1
                   ELSE Put(f1, "hidden", Coalesce(ex("hidden"), Bool(FALSE)))
             f3 == IF InTypes(sectionType, sectionsWithWebsite) /\ ~Defined(src, "website")
                   THEN Put(f2, "website", Coalesce(ex("website"), Ref(Len(h) + 2)))
                   ELSE f2
             f4 == IF InTypes(sectionType, sectionsWithIcon) /\ ~Defined(src, "icon")
                   THEN Put(f3, "icon", Coalesce(ex("icon"), Str("")))
                   ELSE f3
         IN [h |-> h \o <<Obj(f4)>>
                    \o (IF needWebsite THEN <<Obj([url |-> Str(""), label |-> Str("")])>> ELSE <<>>),
             gen |-> IF needId THEN g + 1 ELSE g,
             v |-> Ref(Len(h) + 1)]

\* items.map((item) => normalizeItem(sectionType, item)), element by element.
RECURSIVE normalizeEachItem(_, _, _, _, _, _)
normalizeEachItem(h, g, sectionType, es, i, acc) ==
    IF i > Len(es) THEN [h |-> h, gen |-> g, vs |-> acc]
    ELSE The({ normalizeEachItem(r.h, r.gen, sectionType, es, i + 1, Append(acc, r.v)) :
               r \in {normalizeItem(h, g, sectionType, es[i], Undef)} })

normalizeItemsArray(h, g, sectionType, value) ==
    IF ~IsArray(h, value) THEN [h |-> h, gen |-> g, v |-> value]
    ELSE The({ [h |-> Append(r.h, Arr(r.vs)), gen |-> r.gen, v |-> Ref(Len(r.h) + 1)] :
               r \in {normalizeEachItem(h, g, sectionType, Elems(h, value), 1, <<>>)} })

normalizeCustomSection(h, g, value, existingValue) ==
    IF ~IsObject(h, value) THEN [h |-> h, gen |-> g, v |-> value]
    ELSE LET hasExisting == IsObject(h, existingValue)
             ex(key) == IF hasExisting THEN GetKey(h, existingValue, key) ELSE Undef
             src == Fields(h, value)
             needId == ~Defined(src, "id") /\ IsNullish(ex("id"))
             needItems == ~Defined(src, "items") /\ IsNullish(ex("items"))
             g1 == IF needId THEN g + 1 ELSE g
             \* the section copy is allocated first, then the default items array
             sectionAddr == Len(h) + 1
             \* if (section.key === undefined) section.key = v
             Default(f, key, v) == IF Defined(src, key) THEN f ELSE Put(f, key, v)
             section == Default(Default(Default(Default(Default(Default(src,
                            "id", Coalesce(ex("id"), generateId(g))),
                            "hidden", Coalesce(ex("hidden"), Bool(FALSE))),
                            "columns", Coalesce(ex("columns"), Num("1"))),
                            "title", Coalesce(ex("title"), Str(""))),
                            "type", ex("type")),
                            "items", Coalesce(ex("items"), Ref(Len(h) + 2)))
         IN The({ LET h1 == h \o <<Obj(f6)>> \o (IF needItems THEN <<Arr(<<>>)>> ELSE <<>>)
                  IN IF IsArray(h1, f6["items"]) /\ f6["type"].t = "str"
                     THEN The({ [h |-> [Append(r.h, Arr(r.vs)) EXCEPT
                                          ![sectionAddr] = Obj(Put(f6, "items", Ref(Len(r.h) + 1)))],
                                 gen |-> r.gen,
                                 v |-> Ref(sectionAddr)] :
                                r \in {normalizeEachItem(h1, g1, f6["type"], Elems(h1, f6["items"]), 1, <<>>)} })
                     ELSE [h |-> h1, gen |-> g1, v |-> Ref(sectionAddr)] :
                  f6 \in {section} })

RECURSIVE normalizeEachSection(_, _, _, _, _)
normalizeEachSection(h, g, es, i, acc) ==
    IF i > Len(es) THEN [h |-> h, gen |-> g, vs |-> acc]
    ELSE The({ normalizeEachSection(r.h, r.gen, es, i + 1, Append(acc, r.v)) :
               r \in {normalizeCustomSection(h, g, es[i], Undef)} })

normalizeCustomSections(h, g, value) ==
    IF ~IsArray(h, value) THEN [h |-> h, gen |-> g, v |-> value]
    ELSE The({ [h |-> Append(r.h, Arr(r.vs)), gen |-> r.gen, v |-> Ref(Len(r.h) + 1)] :
               r \in {normalizeEachSection(h, g, Elems(h, value), 1, <<>>)} })

isSectionItemsArrayPath(segs) ==
    Len(segs) = 4 /\ segs[1] = "data" /\ segs[2] = "sections" /\ segs[4] = "items"
isSectionItemPath(segs) ==
    Len(segs) = 5 /\ segs[1] = "data" /\ segs[2] = "sections" /\ segs[4] = "items"
isCustomSectionsArrayPath(segs) ==
    Len(segs) = 2 /\ segs[1] = "data" /\ segs[2] = "customSections"
isCustomSectionPath(segs) ==
    Len(segs) = 3 /\ segs[1] = "data" /\ segs[2] = "customSections"
isCustomSectionItemsArrayPath(segs) ==
    Len(segs) = 4 /\ segs[1] = "data" /\ segs[2] = "customSections" /\ segs[4] = "items"
isCustomSectionItemPath(segs) ==
    Len(segs) = 5 /\ segs[1] = "data" /\ segs[2] = "customSections" /\ segs[4] = "items"

\* getCustomSectionType(data, indexSegment): [err, type]
getCustomSectionType(h, data, indexSegment) ==
    LET cs == Prop(h, data, "customSections")
        section == ElementAt(h, cs, toArrayIndex(indexSegment))
    IN IF PropThrows(data) \/ PropThrows(cs) THEN [err |-> TypeError, type |-> Undef]
       ELSE IF Falsy(section) THEN [err |-> PATCH_TARGET_NOT_FOUND, type |-> Undef]
       ELSE [err |-> OK, type |-> Prop(h, section, "type")]

WithOk(r) == [err |-> OK, h |-> r.h, gen |-> r.gen, v |-> r.v]

\* normalizeOpValue(op, target, existingValue) for an op that carries a value
\* and is not a test: [err, h, gen, v].
normalizeOpValue(h, g, segs, value, target, existingValue) ==
    LET data == Prop(h, target, "data")
    IN IF isSectionItemsArrayPath(segs) THEN WithOk(normalizeItemsArray(h, g, Str(segs[3]), value))
       ELSE IF isSectionItemPath(segs) THEN WithOk(normalizeItem(h, g, Str(segs[3]), value, existingValue))
       ELSE IF isCustomSectionsArrayPath(segs) THEN WithOk(normalizeCustomSections(h, g, value))
       ELSE IF isCustomSectionPath(segs) THEN WithOk(normalizeCustomSection(h, g, value, existingValue))
       ELSE IF isCustomSectionItemsArrayPath(segs)
       THEN LET ty == getCustomSectionType(h, data, segs[3])
            IN IF ty.err # OK THEN [err |-> ty.err, h |-> h, gen |-> g, v |-> value]
               ELSE WithOk(normalizeItemsArray(h, g, ty.type, value))
       ELSE IF isCustomSectionItemPath(segs)
       THEN LET ty == getCustomSectionType(h, data, segs[3])
            IN IF ty.err # OK THEN [err |-> ty.err, h |-> h, gen |-> g, v |-> value]
               ELSE WithOk(normalizeItem(h, g, ty.type, value, existingValue))
       ELSE [err |-> OK, h |-> h, gen |-> g, v |-> value]

\* normalizeAddValue(pathSegments, value, target)
normalizeAddValue(h, g, segs, value, target) == normalizeOpValue(h, g, segs, value, target, Undef)

(***************************************************************************)
(* Operation applier.                                                      *)
(***************************************************************************)
\* getValueAtPath(target, segments, path): [err, v]
RECURSIVE getValueFrom(_, _, _, _)
getValueFrom(h, current, segs, i) ==
    IF i > Len(segs) THEN [err |-> OK, v |-> current]
    ELSE IF IsArray(h, current)
    THEN IF segs[i] = "-" THEN [err |-> INVALID_PATCH_PATH, v |-> Undef]
         ELSE IF toArrayIndex(segs[i]) = -1 \/ toArrayIndex(segs[i]) >= Len(Elems(h, current))
         THEN [err |-> PATCH_TARGET_NOT_FOUND, v |-> Undef]
         ELSE getValueFrom(h, Elems(h, current)[toArrayIndex(segs[i]) + 1], segs, i + 1)
    ELSE IF IsObject(h, current)
    THEN IF ~HasKey(h, current, segs[i]) THEN [err |-> PATCH_TARGET_NOT_FOUND, v |-> Undef]
         ELSE getValueFrom(h, GetKey(h, current, segs[i]), segs, i + 1)
    ELSE [err |-> PATCH_TARGET_NOT_FOUND, v |-> Undef]

\* getValueAtPath that reads a path ending in `-` as undefined.
getValueAtPathPastEnd(h, target, segs) ==
    IF Len(segs) > 0 /\ segs[Len(segs)] = "-" THEN [err |-> OK, v |-> Undef]
    ELSE getValueFrom(h, target, segs, 1)
getValueAtPath(h, target, segs) == getValueFrom(h, target, segs, 1)

\* safeGetValueAtPath: any failure reads as undefined.
safeGetValueAtPath(h, target, segs) ==
    LET r == getValueAtPath(h, target, segs) IN IF r.err = OK THEN r.v ELSE Undef

\* getParentAndKey(target, segments, path): [err, parent, key]
RECURSIVE getParentFrom(_, _, _, _)
getParentFrom(h, parent, segs, i) ==
    IF i > Len(segs) - 1 THEN [err |-> OK, parent |-> parent, key |-> segs[Len(segs)]]
    ELSE IF IsArray(h, parent)
    THEN IF toArrayIndex(segs[i]) = -1 \/ toArrayIndex(segs[i]) >= Len(Elems(h, parent))
         THEN [err |-> PATCH_TARGET_NOT_FOUND, parent |-> Undef, key |-> ""]
         ELSE getParentFrom(h, Elems(h, parent)[toArrayIndex(segs[i]) + 1], segs, i + 1)
    ELSE IF IsObject(h, parent)
    THEN IF ~HasKey(h, parent, segs[i])
         THEN [err |-> PATCH_TARGET_NOT_FOUND, parent |-> Undef, key |-> ""]
         ELSE getParentFrom(h, GetKey(h, parent, segs[i]), segs, i + 1)
    ELSE [err |-> PATCH_TARGET_NOT_FOUND, parent |-> Undef, key |-> ""]

getParentAndKey(h, target, segs) ==
    IF Len(segs) = 0 THEN [err |-> INVALID_PATCH_PATH, parent |-> Undef, key |-> ""]
    ELSE getParentFrom(h, target, segs, 1)

Fail(code, h) == [err |-> code, h |-> h]
Done(h) == [err |-> OK, h |-> h]

\* applyAdd that takes a digit key as the index of an existing element.
applyAddWithin(h, parent, key, value) ==
    IF IsArray(h, parent)
    THEN LET index == IF key = "-" THEN Len(Elems(h, parent)) ELSE toArrayIndex(key)
         IN IF index = -1 \/ (key # "-" /\ index >= Len(Elems(h, parent)))
            THEN Fail(INVALID_PATCH_PATH, h)
            ELSE Done([h EXCEPT ![parent.r].a = InsertAt(@, index, value)])
    ELSE IF ~IsObject(h, parent) THEN Fail(PATCH_TARGET_NOT_FOUND, h)
    ELSE Done([h EXCEPT ![parent.r] = SetField(@, key, value)])

applyAdd(h, parent, key, value) ==
    IF IsArray(h, parent)
    THEN LET index == IF key = "-" THEN Len(Elems(h, parent)) ELSE toArrayIndex(key)
         IN IF index = -1 \/ index > Len(Elems(h, parent)) THEN Fail(INVALID_PATCH_PATH, h)
            ELSE Done([h EXCEPT ![parent.r].a = InsertAt(@, index, value)])
    ELSE IF ~IsObject(h, parent) THEN Fail(PATCH_TARGET_NOT_FOUND, h)
    ELSE Done([h EXCEPT ![parent.r] = SetField(@, key, value)])

applyReplace(h, parent, key, value) ==
    IF IsArray(h, parent)
    THEN LET index == toArrayIndex(key)
         IN IF index = -1 \/ index >= Len(Elems(h, parent)) THEN Fail(PATCH_TARGET_NOT_FOUND, h)
            ELSE Done([h EXCEPT ![parent.r].a[index + 1] = value])
    ELSE IF ~IsObject(h, parent) THEN Fail(PATCH_TARGET_NOT_FOUND, h)
    ELSE IF ~HasKey(h, parent, key) THEN Fail(PATCH_TARGET_NOT_FOUND, h)
    ELSE Done([h EXCEPT ![parent.r] = SetField(@, key, value)])

applyRemove(h, parent, key) ==
    IF IsArray(h, parent)
    THEN LET index == toArrayIndex(key)
         IN IF index = -1 \/ index >= Len(Elems(h, parent)) THEN Fail(PATCH_TARGET_NOT_FOUND, h)
            ELSE Done([h EXCEPT ![parent.r].a = RemoveAt(@, index)])
    ELSE IF ~IsObject(h, parent) THEN Fail(PATCH_TARGET_NOT_FOUND, h)
    ELSE IF ~HasKey(h, parent, key) THEN Fail(PATCH_TARGET_NOT_FOUND, h)
    ELSE Done([h EXCEPT ![parent.r] = DelField(@, key)])

applyTest(h, parent, key, value) ==
    IF IsArray(h, parent)
    THEN LET index == toArrayIndex(key)
         IN IF index = -1 \/ index >= Len(Elems(h, parent)) THEN Fail(PATCH_TARGET_NOT_FOUND, h)
            ELSE IF ~isDeepEqual(h, Elems(h, parent)[index + 1], value) THEN Fail(PATCH_CONFLICT, h)
            ELSE Done(h)
    ELSE IF ~IsObject(h, parent) THEN Fail(PATCH_TARGET_NOT_FOUND, h)
    ELSE IF ~HasKey(h, parent, key) THEN Fail(PATCH_TARGET_NOT_FOUND, h)
    ELSE IF ~isDeepEqual(h, GetKey(h, parent, key), value) THEN Fail(PATCH_CONFLICT, h)
    ELSE Done(h)

\* applyPatchOperation(target, op) for a resolved add, replace, remove or test.
applyPatchOperation(h, target, opKind, segs, hasValue, value) ==
    LET pk == getParentAndKey(h, target, segs)
    IN IF pk.err # OK THEN Fail(pk.err, h)
       ELSE IF opKind = "add" /\ hasValue THEN applyAdd(h, pk.parent, pk.key, value)
       ELSE IF opKind = "replace" /\ hasValue THEN applyReplace(h, pk.parent, pk.key, value)
       ELSE IF opKind = "remove" THEN applyRemove(h, pk.parent, pk.key)
       ELSE IF opKind = "test" /\ hasValue THEN applyTest(h, pk.parent, pk.key, value)
       ELSE Fail(INVALID_PATCH, h)

\* markPatchImpact that records customSections only.
markPatchImpactCustomOnly(segs, fl) ==
    [touchesCustomSections |->
        fl.touchesCustomSections \/ (Seg(segs, 0) = "data" /\ Seg(segs, 1) = "customSections"),
     touchesLayout |-> fl.touchesLayout]

\* markPatchImpact(pathSegments, flags)
markPatchImpact(segs, fl) ==
    [touchesCustomSections |->
        fl.touchesCustomSections \/ (Seg(segs, 0) = "data" /\ Seg(segs, 1) = "customSections"),
     touchesLayout |->
        fl.touchesLayout \/ (Seg(segs, 0) = "data" /\ Seg(segs, 1) = "metadata" /\ Seg(segs, 2) = "layout")]

(***************************************************************************)
(* One iteration of the operation loop: [err, h, gen, flags].              *)
(***************************************************************************)
Res(code, h, g, fl) == [err |-> code, h |-> h, gen |-> g, flags |-> fl]

\* resolve path, mark, normalize for the destination, add: the tail shared
\* by the move and the copy branch.
addAtPath(h, g, fl, target, path, opKind, value) ==
    The({ IF rp.err # OK THEN Res(rp.err, h, g, fl)
          ELSE The({ IF nv.err # OK THEN Res(nv.err, h, g, markPatchImpact(rp.segs, fl))
                     ELSE The({ IF pk.err # OK
                                THEN Res(pk.err, nv.h, nv.gen, markPatchImpact(rp.segs, fl))
                                ELSE The({ Res(ad.err, ad.h, nv.gen, markPatchImpact(rp.segs, fl)) :
                                           ad \in {applyAdd(nv.h, pk.parent, pk.key, nv.v)} }) :
                                pk \in {getParentAndKey(nv.h, target, rp.segs)} }) :
                     nv \in {normalizeAddValue(h, g, rp.segs, value, target)} }) :
          rp \in {resolvePatchPath(h, path, opKind, target, FALSE)} })

\* A move that resolves its destination before removing the source.
applyMoveResolveFirst(h, g, fl, target, op) ==
    LET rf == resolvePatchPath(h, op.from, "move", target, TRUE)
        rp == resolvePatchPath(h, op.path, "move", target, FALSE)
    IN IF rf.err # OK THEN Res(rf.err, h, g, fl)
       ELSE LET fl1 == markPatchImpact(rf.segs, fl)
                gv == getValueAtPath(h, target, rf.segs)
                pk == getParentAndKey(h, target, rf.segs)
            IN IF gv.err # OK THEN Res(gv.err, h, g, fl1)
               ELSE IF pk.err # OK THEN Res(pk.err, h, g, fl1)
               ELSE LET rm == applyRemove(h, pk.parent, pk.key)
                    IN IF rm.err # OK THEN Res(rm.err, h, g, fl1)
                       ELSE IF rp.err # OK THEN Res(rp.err, rm.h, g, fl1)
                       ELSE LET fl2 == markPatchImpact(rp.segs, fl1)
                                nv == normalizeAddValue(rm.h, g, rp.segs, gv.v, target)
                                pk2 == getParentAndKey(nv.h, target, rp.segs)
                            IN IF nv.err # OK THEN Res(nv.err, rm.h, g, fl2)
                               ELSE IF pk2.err # OK THEN Res(pk2.err, nv.h, nv.gen, fl2)
                               ELSE LET ad == applyAdd(nv.h, pk2.parent, pk2.key, nv.v)
                                    IN Res(ad.err, ad.h, nv.gen, fl2)

applyMove(h, g, fl, target, op) ==
    The({ IF rf.err # OK THEN Res(rf.err, h, g, fl)
          ELSE The({ IF gv.err # OK THEN Res(gv.err, h, g, markPatchImpact(rf.segs, fl))
                     ELSE The({ IF pk.err # OK THEN Res(pk.err, h, g, markPatchImpact(rf.segs, fl))
                                ELSE The({ IF rm.err # OK
                                           THEN Res(rm.err, h, g, markPatchImpact(rf.segs, fl))
                                           ELSE addAtPath(rm.h, g, markPatchImpact(rf.segs, fl),
                                                          target, op.path, "move", gv.v) :
                                           rm \in {applyRemove(h, pk.parent, pk.key)} }) :
                                pk \in {getParentAndKey(h, target, rf.segs)} }) :
                     gv \in {getValueAtPath(h, target, rf.segs)} }) :
          rf \in {resolvePatchPath(h, op.from, "move", target, TRUE)} })

\* A copy that inserts the value it read without cloning it.
applyCopyShared(h, g, fl, target, op) ==
    The({ IF rf.err # OK THEN Res(rf.err, h, g, fl)
          ELSE The({ IF gv.err # OK THEN Res(gv.err, h, g, fl)
                     ELSE addAtPath(h, g, fl, target, op.path, "copy", gv.v) :
                     gv \in {getValueAtPath(h, target, rf.segs)} }) :
          rf \in {resolvePatchPath(h, op.from, "copy", target, FALSE)} })

applyCopy(h, g, fl, target, op) ==
    The({ IF rf.err # OK THEN Res(rf.err, h, g, fl)
          ELSE The({ IF gv.err # OK THEN Res(gv.err, h, g, fl)
                     ELSE The({ addAtPath(cl.h, g, fl, target, op.path, "copy", cl.v) :
                                cl \in {structuredClone(h, gv.v)} }) :
                     gv \in {getValueAtPath(h, target, rf.segs)} }) :
          rf \in {resolvePatchPath(h, op.from, "copy", target, FALSE)} })

\* applyOther that normalizes the value of a test as it does that of a replace.
applyOtherNormalizeTest(h, g, fl, target, op, value) ==
    The({ IF rp.err # OK THEN Res(rp.err, h, g, fl)
          ELSE IF op.op = "remove" \/ ~op.hasValue
          THEN The({ Res(ap.err, ap.h, g, markPatchImpact(rp.segs, fl)) :
                     ap \in {applyPatchOperation(h, target, op.op, rp.segs, op.hasValue, value)} })
          ELSE The({ IF nv.err # OK THEN Res(nv.err, h, g, markPatchImpact(rp.segs, fl))
                     ELSE The({ Res(ap.err, ap.h, nv.gen, markPatchImpact(rp.segs, fl)) :
                                ap \in {applyPatchOperation(nv.h, target, op.op, rp.segs, TRUE, nv.v)} }) :
                     nv \in {normalizeOpValue(h, g, rp.segs, value, target,
                                              IF op.op \in {"replace", "test"}
                                              THEN safeGetValueAtPath(h, target, rp.segs)
                                              ELSE Undef)} }) :
          rp \in {resolvePatchPath(h, op.path, op.op, target, FALSE)} })

\* add, replace, remove and test; value is the caller's value object.
applyOther(h, g, fl, target, op, value) ==
    The({ IF rp.err # OK THEN Res(rp.err, h, g, fl)
          ELSE IF op.op = "test" \/ op.op = "remove" \/ ~op.hasValue
          THEN The({ Res(ap.err, ap.h, g, markPatchImpact(rp.segs, fl)) :
                     ap \in {applyPatchOperation(h, target, op.op, rp.segs, op.hasValue, value)} })
          ELSE The({ IF nv.err # OK THEN Res(nv.err, h, g, markPatchImpact(rp.segs, fl))
                     ELSE The({ Res(ap.err, ap.h, nv.gen, markPatchImpact(rp.segs, fl)) :
                                ap \in {applyPatchOperation(nv.h, target, op.op, rp.segs, TRUE, nv.v)} }) :
                     nv \in {normalizeOpValue(h, g, rp.segs, value, target,
                                              IF op.op = "replace"
                                              THEN safeGetValueAtPath(h, target, rp.segs)
                                              ELSE Undef)} }) :
          rp \in {resolvePatchPath(h, op.path, op.op, target, FALSE)} })

applyOne(h, g, fl, target, op, value) ==
    IF op.op = "move" THEN applyMove(h, g, fl, target, op)
    ELSE IF op.op = "copy" THEN applyCopy(h, g, fl, target, op)
    ELSE applyOther(h, g, fl, target, op, value)

(***************************************************************************)
(* Layout synchronizer: [err, h].                                          *)
(***************************************************************************)
\* data.customSections.map((section) => section.id) as a sequence of values;
\* the caller has checked that it does not throw.
customSectionIdSeq(h, data) ==
    LET cs == Elems(h, Prop(h, data, "customSections"))
    IN [i \in DOMAIN cs |-> Prop(h, cs[i], "id")]

customSectionIdsThrow(h, data) ==
    \/ PropThrows(data)
    \/ ~IsArray(h, Prop(h, data, "customSections"))
    \/ \E i \in DOMAIN Elems(h, Prop(h, data, "customSections")) :
          PropThrows(Elems(h, Prop(h, data, "customSections"))[i])

Range(s) == {s[i] : i \in DOMAIN s}

KeepAllLayoutIds(id, customIds) == TRUE
KeepLayoutId(id, customIds) == (id.t = "str" /\ id.s \in allowedLayoutIds) \/ id \in customIds

FilterIds(ids, customIds) == SelectSeq(ids, LAMBDA id : KeepLayoutId(id, customIds))

\* The two filters of newCustomSectionIds, without the first.
IsNewCustomSectionIdAnyOrigin(id, originalIds, referencedIds) == id \notin referencedIds
\* .filter((id) => !originalCustomSectionIds.has(id)).filter((id) => !referencedIds.has(id))
IsNewCustomSectionId(id, originalIds, referencedIds) ==
    id \notin originalIds /\ id \notin referencedIds

PageThrows(h, page) ==
    \/ ~IsObject(h, page)
    \/ ~IsArray(h, GetKey(h, page, "main"))
    \/ ~IsArray(h, GetKey(h, page, "sidebar"))

normalizeLayout(h, data, addNewCustomSections, originalIds) ==
    IF PropThrows(data) THEN Fail(TypeError, h)
    ELSE LET metadata == Prop(h, data, "metadata")
             layout == IF IsNullish(metadata) THEN Undef ELSE Prop(h, metadata, "layout")
             pages == IF IsNullish(layout) THEN Undef ELSE Prop(h, layout, "pages")
         IN IF Falsy(pages) THEN Done(h)
            ELSE IF customSectionIdsThrow(h, data) THEN Fail(TypeError, h)
            ELSE IF ~IsArray(h, pages) THEN Fail(TypeError, h)
            ELSE IF \E i \in DOMAIN Elems(h, pages) : PageThrows(h, Elems(h, pages)[i])
            THEN Fail(TypeError, h)
            ELSE
              LET ps == Elems(h, pages)
                  n == Len(ps)
                  customIds == Range(customSectionIdSeq(h, data))
                  main(i) == FilterIds(Elems(h, GetKey(h, ps[i], "main")), customIds)
                  sidebar(i) == FilterIds(Elems(h, GetKey(h, ps[i], "sidebar")), customIds)
                  referencedIds == UNION {Range(main(i)) \cup Range(sidebar(i)) : i \in 1..n}
                  newCustomSectionIds ==
                      IF addNewCustomSections
                      THEN SelectSeq(customSectionIdSeq(h, data),
                                     LAMBDA id : IsNewCustomSectionId(id, originalIds, referencedIds))
                      ELSE <<>>
                  \* the filtered arrays are new arrays: page i gets the nodes
                  \* Len(h) + 2i - 1 (main) and Len(h) + 2i (sidebar)
                  fresh == [j \in 1..(2 * n) |->
                              IF j % 2 = 1
                              THEN Arr(main((j + 1) \div 2)
                                       \o (IF j = 1 THEN newCustomSectionIds ELSE <<>>))
                              ELSE Arr(sidebar(j \div 2))]
                  pageOf(a) == CHOOSE i \in 1..n : ps[i].r = a
                  h1 == [a \in DOMAIN h |->
                            IF \E i \in 1..n : ps[i].r = a
                            THEN SetField(SetField(h[a], "main", Ref(Len(h) + 2 * pageOf(a) - 1)),
                                          "sidebar", Ref(Len(h) + 2 * pageOf(a)))
                            ELSE h[a]]
              IN Done(h1 \o fresh)

(***************************************************************************)
(* Schema gate.  patchTargetSchema is in the source; resumeDataSchema is   *)
(* not, and is modelled from the data model of the specification.          *)
(***************************************************************************)
IsStr(v) == v.t = "str"
IsBool(v) == v.t = "bool"
IsNum(v) == v.t = "num"
Own(h, v, key) == IF key \in DOMAIN Fields(h, v) THEN Fields(h, v)[key] ELSE Undef
AllElems(h, v, P(_)) == IsArray(h, v) /\ \A i \in DOMAIN Elems(h, v) : P(Elems(h, v)[i])

\* The narrative field each modelled item type requires.
RequiredItemField(type) ==
    CASE type = "experience" -> "company"
      [] type = "skills" -> "name"
      [] OTHER -> "id"

itemSchema(h, type, item) ==
    /\ IsObject(h, item)
    /\ IsStr(Own(h, item, "id"))
    /\ IsBool(Own(h, item, "hidden"))
    /\ IsStr(Own(h, item, RequiredItemField(type)))
    /\ type \in sectionsWithWebsite =>
          /\ IsObject(h, Own(h, item, "website"))
          /\ IsStr(Own(h, Own(h, item, "website"), "url"))
          /\ IsStr(Own(h, Own(h, item, "website"), "label"))
    /\ type \in sectionsWithIcon => IsStr(Own(h, item, "icon"))

sectionSchema(h, type, section) ==
    /\ IsObject(h, section)
    /\ IsStr(Own(h, section, "title"))
    /\ AllElems(h, Own(h, section, "items"), LAMBDA item : itemSchema(h, type, item))

customSectionSchema(h, section) ==
    /\ IsObject(h, section)
    /\ IsStr(Own(h, section, "id"))
    /\ IsStr(Own(h, section, "title"))
    /\ IsStr(Own(h, section, "type")) /\ Own(h, section, "type").s \in sectionTypeSchema
    /\ IsNum(Own(h, section, "columns"))
    /\ IsBool(Own(h, section, "hidden"))
    /\ AllElems(h, Own(h, section, "items"),
                LAMBDA item : itemSchema(h, Own(h, section, "type").s, item))

pageLayoutSchema(h, page) ==
    /\ IsObject(h, page)
    /\ IsBool(Own(h, page, "fullWidth"))
    /\ AllElems(h, Own(h, page, "main"), IsStr)
    /\ AllElems(h, Own(h, page, "sidebar"), IsStr)

\* The section types the documents of the model carry.
ModelledSections == {"experience", "skills"}

resumeDataSchema(h, data) ==
    /\ IsObject(h, data)
    /\ IsObject(h, Own(h, data, "basics"))
    /\ IsStr(Own(h, Own(h, data, "basics"), "name"))
    /\ IsObject(h, Own(h, data, "sections"))
    /\ \A type \in ModelledSections : sectionSchema(h, type, Own(h, Own(h, data, "sections"), type))
    /\ AllElems(h, Own(h, data, "customSections"), LAMBDA section : customSectionSchema(h, section))
    /\ IsObject(h, Own(h, data, "metadata"))
    /\ IsObject(h, Own(h, Own(h, data, "metadata"), "layout"))
    /\ AllElems(h, Own(h, Own(h, Own(h, data, "metadata"), "layout"), "pages"),
                LAMBDA page : pageLayoutSchema(h, page))

patchTargetSchema(h, target) ==
    /\ IsObject(h, target)
    /\ IsStr(Own(h, target, "name"))
    /\ IsStr(Own(h, target, "slug"))
    /\ AllElems(h, Own(h, target, "tags"), IsStr)
    /\ IsBool(Own(h, target, "isPublic"))
    /\ resumeDataSchema(h, Own(h, target, "data"))

(***************************************************************************)
(* The caller's targets.  Node 1 is the target; every target is a valid    *)
(* stored resume.  Target 2 differs from target 1 by a stale id in the     *)
(* sidebar of its page.                                                    *)
(***************************************************************************)
Targets == {1, 2}

TargetHeap(t) == <<
    (* 1 *) Obj([name |-> Str("resume"), slug |-> Str("resume"), tags |-> Ref(2),
                 isPublic |-> Bool(FALSE), data |-> Ref(3)]),
    (* 2 *) Arr(<<>>),
    (* 3 *) Obj([basics |-> Ref(4), sections |-> Ref(5), customSections |-> Ref(14),
                 metadata |-> Ref(20)]),
    (* 4 *) Obj([name |-> Str("ada")]),
    (* 5 *) Obj([experience |-> Ref(6), skills |-> Ref(12)]),
    (* 6 *) Obj([title |-> Str(""), items |-> Ref(7)]),
    (* 7 *) Arr(<<Ref(8), Ref(10)>>),
    (* 8 *) Obj([id |-> Str("a"), hidden |-> Bool(FALSE), company |-> Str("acme"),
                 website |-> Ref(9)]),
    (* 9 *) Obj([url |-> Str(""), label |-> Str("")]),
    (* 10 *) Obj([id |-> Str("0"), hidden |-> Bool(TRUE), company |-> Str("beta"),
                  website |-> Ref(11)]),
    (* 11 *) Obj([url |-> Str("u"), label |-> Str("")]),
    (* 12 *) Obj([title |-> Str(""), items |-> Ref(13)]),
    (* 13 *) Arr(<<>>),
    (* 14 *) Arr(<<Ref(15), Ref(18)>>),
    (* 15 *) Obj([id |-> Str("c1"), title |-> Str("one"), type |-> Str("skills"),
                  columns |-> Num("2"), hidden |-> Bool(FALSE), items |-> Ref(16)]),
    (* 16 *) Arr(<<Ref(17)>>),
    (* 17 *) Obj([id |-> Str("s1"), hidden |-> Bool(FALSE), name |-> Str("ts"),
                  icon |-> Str("i")]),
    (* 18 *) Obj([id |-> Str("c2"), title |-> Str("two"), type |-> Str("experience"),
                  columns |-> Num("1"), hidden |-> Bool(FALSE), items |-> Ref(19)]),
    (* 19 *) Arr(<<>>),
    (* 20 *) Obj([layout |-> Ref(21)]),
    (* 21 *) Obj([pages |-> Ref(22)]),
    (* 22 *) Arr(<<Ref(23)>>),
    (* 23 *) Obj([fullWidth |-> Bool(FALSE), main |-> Ref(24), sidebar |-> Ref(25)]),
    (* 24 *) Arr(<<Str("summary"), Str("c1")>>),
    (* 25 *) Arr(IF t = 2 THEN <<Str("experience"), Str("stale")>> ELSE <<Str("experience")>>)
>>

(***************************************************************************)
(* The caller's operations.  A value is a fragment: a root and the nodes   *)
(* it refers to, numbered from 1; Place puts the fragment in the heap.     *)
(***************************************************************************)
Prim(v) == [root |-> v, nodes |-> <<>>]
NoValue == Prim(Undef)
Shift(v, base) == IF v.t = "ref" THEN Ref(v.r + base) ELSE v
ShiftNode(node, base) ==
    IF node.k = "arr" THEN Arr([i \in DOMAIN node.a |-> Shift(node.a[i], base)])
    ELSE Obj([x \in DOMAIN node.o |-> Shift(node.o[x], base)])
Place(h, frag) ==
    [h |-> h \o [i \in DOMAIN frag.nodes |-> ShiftNode(frag.nodes[i], Len(h))],
     v |-> Shift(frag.root, Len(h))]

Ptr(raw) == [abs |-> TRUE, raw |-> raw]
NoPath == [abs |-> FALSE, raw |-> <<>>]
EXP == <<"data", "sections", "experience", "items">>
CUS == <<"data", "customSections">>
MAIN == <<"data", "metadata", "layout", "pages", "0", "main">>

PartialItem == [root |-> Ref(1), nodes |-> <<Obj([company |-> Str("x")])>>]
PartialCustomSection ==
    [root |-> Ref(1), nodes |-> <<Obj([type |-> Str("skills"), title |-> Str("t")])>>]
LayoutIds == [root |-> Ref(1), nodes |-> <<Arr(<<Str("summary"), Str("nope")>>)>>]
BareSection ==
    [root |-> Ref(1),
     nodes |-> <<Obj([title |-> Str(""), items |-> Ref(2)]), Arr(<<Ref(3)>>),
                 Obj([company |-> Str("x")])>>]

AddOp(raw, frag) == [op |-> "add", path |-> Ptr(raw), from |-> NoPath, hasValue |-> TRUE, value |-> frag]
ReplaceOp(raw, frag) == [op |-> "replace", path |-> Ptr(raw), from |-> NoPath, hasValue |-> TRUE, value |-> frag]
RemoveOp(raw) == [op |-> "remove", path |-> Ptr(raw), from |-> NoPath, hasValue |-> FALSE, value |-> NoValue]
TestOp(raw, frag) == [op |-> "test", path |-> Ptr(raw), from |-> NoPath, hasValue |-> TRUE, value |-> frag]
MoveOp(from, raw) == [op |-> "move", path |-> Ptr(raw), from |-> Ptr(from), hasValue |-> FALSE, value |-> NoValue]
CopyOp(from, raw) == [op |-> "copy", path |-> Ptr(raw), from |-> Ptr(from), hasValue |-> FALSE, value |-> NoValue]

AddOps == {
    AddOp(EXP \o <<"-">>, PartialItem),
    AddOp(EXP \o <<"2">>, PartialItem),
    AddOp(EXP \o <<"9">>, PartialItem),
    AddOp(EXP \o <<"ghost">>, PartialItem),
    AddOp(CUS \o <<"-">>, PartialCustomSection),
    AddOp(<<"data", "__proto__", "x">>, Prim(Str("x"))),
    AddOp(<<"tags", "-">>, Prim(Str("t"))),
    AddOp(MAIN \o <<"-">>, Prim(Str("nope"))),
    AddOp(<<"data", "sections", "bogus", "items", "-">>, PartialItem),
    [op |-> "add", path |-> [abs |-> FALSE, raw |-> <<"data", "basics", "name">>],
     from |-> NoPath, hasValue |-> TRUE, value |-> Prim(Str("x"))],
    [op |-> "add", path |-> Ptr(<<"tags", "-">>), from |-> NoPath, hasValue |-> FALSE,
     value |-> NoValue] }

ReplaceOps == {
    ReplaceOp(EXP \o <<"a", "company">>, Prim(Str("y"))),
    ReplaceOp(EXP \o <<"id", "0", "company">>, Prim(Str("y"))),
    ReplaceOp(EXP \o <<"0", "company">>, Prim(Str("z"))),
    ReplaceOp(EXP \o <<"9", "company">>, Prim(Str("z"))),
    ReplaceOp(EXP \o <<"g1", "company">>, Prim(Str("w"))),
    ReplaceOp(EXP \o <<"0", "website", "url">>, Prim(Str("v"))),
    ReplaceOp(EXP \o <<"2", "website", "url">>, Prim(Str("v"))),
    ReplaceOp(<<"data", "basics", "name">>, Prim(Num("123"))),
    ReplaceOp(MAIN, LayoutIds),
    ReplaceOp(MAIN, Prim(Num("7"))),
    ReplaceOp(<<"name">>, Prim(Str("new"))),
    ReplaceOp(<<"data", "sections", "experience">>, BareSection) }

RemoveOps == {
    RemoveOp(EXP \o <<"a">>),
    RemoveOp(EXP \o <<"0">>),
    RemoveOp(EXP \o <<"id">>),
    RemoveOp(EXP \o <<"ghost">>),
    RemoveOp(CUS \o <<"c1">>),
    RemoveOp(CUS \o <<"id">>),
    RemoveOp(CUS \o <<"ghost">>),
    RemoveOp(CUS \o <<"c1", "items", "s1">>),
    RemoveOp(CUS \o <<"c1", "items", "ghost">>),
    RemoveOp(CUS),
    RemoveOp(<<"data", "sections">>),
    RemoveOp(<<"data">>),
    RemoveOp(<<"name">>) }

TestOps == {
    TestOp(EXP \o <<"a", "company">>, Prim(Str("acme"))),
    TestOp(EXP \o <<"ghost", "company">>, Prim(Str("acme"))),
    TestOp(<<"constructor", "x">>, Prim(Str("x"))),
    TestOp(<<"data", "basics", "name">>, Prim(Str("zzz"))) }

MoveOps == {
    MoveOp(EXP \o <<"id", "a">>, EXP \o <<"-">>),
    MoveOp(EXP \o <<"id", "a">>, EXP \o <<"id", "0">>),
    MoveOp(EXP \o <<"0">>, EXP \o <<"1">>),
    MoveOp(EXP \o <<"0">>, EXP \o <<"-">>),
    MoveOp(EXP \o <<"a">>, EXP \o <<"ghost">>),
    MoveOp(EXP \o <<"-">>, EXP \o <<"0">>),
    MoveOp(EXP \o <<"a">>, <<"data", "__proto__", "x">>),
    MoveOp(EXP \o <<"ghost">>, <<"data", "prototype", "x">>),
    MoveOp(<<"data", "__proto__", "x">>, EXP \o <<"-">>) }

CopyOps == {
    CopyOp(EXP \o <<"id", "a">>, EXP \o <<"-">>),
    CopyOp(EXP \o <<"0">>, EXP \o <<"-">>),
    CopyOp(EXP \o <<"a">>, <<"data", "constructor">>),
    CopyOp(EXP \o <<"ghost">>, <<"data", "__proto__", "x">>) }

Ops == AddOps \cup ReplaceOps \cup RemoveOps \cup TestOps \cup MoveOps \cup CopyOps

(***************************************************************************)
(* The state machine.                                                      *)
(***************************************************************************)
Init ==
    /\ tix \in Targets
    /\ LET cl == structuredClone(TargetHeap(tix), TargetRoot)
       IN /\ heap = cl.h
          /\ next = cl.v
          /\ originalCustomSectionIds = Range(customSectionIdSeq(TargetHeap(tix), Prop(TargetHeap(tix), TargetRoot, "data")))
    /\ patch = <<>>
    /\ flags = [touchesCustomSections |-> FALSE, touchesLayout |-> FALSE]
    /\ gen = 0
    /\ status = "running"
    /\ err = OK
    /\ result = Undef
    /\ HandlerIdle /\ DraftIdle /\ ReorderIdle

\* An error thrown by an iteration leaves the loop and the function.
StatusAfterSwallow(code) == "running"
StatusAfter(code) == IF code = OK THEN "running" ELSE "failed"

\* One iteration of `for (const op of input.patch)`.
Step(op) ==
    /\ status = "running"
    /\ Len(patch) < MaxOps
    /\ gen + MaxGenPerOp <= Len(GenIds)
    /\ \E pv \in {Place(heap, op.value)} :
          \E r \in {applyOne(pv.h, gen, flags, next, op, pv.v)} :
             /\ heap' = r.h
             /\ gen' = r.gen
             /\ flags' = r.flags
             /\ err' = r.err
             /\ status' = StatusAfter(r.err)
             /\ patch' = Append(patch, [op |-> op, value |-> pv.v])
    /\ UNCHANGED <<next, originalCustomSectionIds, result, tix>>
    /\ UNCHANGED <<handlerVars, draftVars, reorderVars>>

Add == \E op \in AddOps : Step(op)
Replace == \E op \in ReplaceOps : Step(op)
Remove == \E op \in RemoveOps : Step(op)
Test == \E op \in TestOps : Step(op)
Move == \E op \in MoveOps : Step(op)
Copy == \E op \in CopyOps : Step(op)

\* After the loop: normalizeLayout, patchTargetSchema.safeParse, return.
Finish ==
    /\ status = "running"
    /\ \E nl \in {normalizeLayout(heap, Prop(heap, next, "data"),
                                  flags.touchesCustomSections /\ ~flags.touchesLayout,
                                  originalCustomSectionIds)} :
          IF nl.err # OK
          THEN /\ heap' = nl.h
               /\ err' = nl.err
               /\ status' = "failed"
               /\ result' = result
          ELSE IF ~patchTargetSchema(nl.h, next)
          THEN /\ heap' = nl.h
               /\ err' = INVALID_PATCH
               /\ status' = "failed"
               /\ result' = result
          ELSE \E parsed \in {structuredClone(nl.h, next)} :
                  /\ heap' = parsed.h
                  /\ err' = OK
                  /\ status' = "returned"
                  /\ result' = parsed.v
    /\ UNCHANGED <<next, patch, flags, originalCustomSectionIds, gen, tix>>
    /\ UNCHANGED <<handlerVars, draftVars, reorderVars>>

Next == Add \/ Replace \/ Remove \/ Test \/ Move \/ Copy \/ Finish

Spec == Init /\ [][Next]_vars

(***************************************************************************)
(* Batches of entity operations: adds and in-place replaces of section     *)
(* items, custom sections and custom-section items, on a stored resume     *)
(* that carries a section of each of the section types.                    *)
(***************************************************************************)
OtherSections ==
    <<"profiles", "education", "projects", "languages", "interests", "awards",
      "certifications", "publications", "volunteer", "references">>
SectionAddr(type) ==
    CASE type = "experience" -> 6
      [] type = "skills" -> 12
      [] OTHER -> 24 + 2 * (CHOOSE i \in DOMAIN OtherSections : OtherSections[i] = type)
\* Target 1 with an empty section of every other section type.
FullTargetHeap ==
    [TargetHeap(1) EXCEPT ![5] = Obj([type \in sectionTypeSchema |-> Ref(SectionAddr(type))])]
        \o [n \in 1..(2 * Len(OtherSections)) |->
               IF n % 2 = 1 THEN Obj([title |-> Str(""), items |-> Ref(25 + n + 1)])
               ELSE Arr(<<>>)]

ITEMS(type) == <<"data", "sections", type, "items">>
\* The narrative field of the items of a section type.
ItemField(type) == IF type = "experience" THEN "company" ELSE "name"
\* An item with its narrative field only.
BareItem(type) == [root |-> Ref(1), nodes |-> <<Obj([x \in {ItemField(type)} |-> Str("x")])>>]
\* An item with its narrative field and hidden.
HiddenItem(type) ==
    [root |-> Ref(1),
     nodes |-> <<Obj([x \in {ItemField(type), "hidden"} |->
                        IF x = "hidden" THEN Bool(TRUE) ELSE Str("x")])>>]
\* An item supplying every field the normalizer governs.
FullItemNode(type, website) ==
    Obj([x \in {ItemField(type), "id", "hidden", "website", "icon"} |->
            CASE x = "id" -> Str("p")
              [] x = "hidden" -> Bool(TRUE)
              [] x = "website" -> website
              [] x = "icon" -> Str("k")
              [] OTHER -> Str("x")])
FullItem(type) ==
    [root |-> Ref(1),
     nodes |-> <<FullItemNode(type, Ref(2)), Obj([url |-> Str("w"), label |-> Str("l")])>>]
\* A custom section of a type with a bare and a full item, and nothing else.
TypedCustomSection(type) ==
    [root |-> Ref(1),
     nodes |-> <<Obj([type |-> Str(type), items |-> Ref(2)]),
                 Arr(<<Ref(3), Ref(4)>>),
                 BareItem(type).nodes[1],
                 FullItemNode(type, Ref(5)),
                 Obj([url |-> Str("w"), label |-> Str("l")])>>]
\* A custom section supplying every field the normalizer governs.
FullCustomSection ==
    [root |-> Ref(1),
     nodes |-> <<Obj([id |-> Str("cs"), hidden |-> Bool(TRUE), columns |-> Num("3"),
                      title |-> Str("full"), type |-> Str("skills"), items |-> Ref(2)]),
                 Arr(<<>>)>>]
TitleOnly == [root |-> Ref(1), nodes |-> <<Obj([title |-> Str("t2")])>>]
SampleTypes == {"experience", "skills", "profiles", "languages"}

EntityAddOps ==
    {AddOp(ITEMS(type) \o <<"-">>, BareItem(type)) : type \in sectionTypeSchema}
    \cup {AddOp(ITEMS(type) \o <<"-">>, FullItem(type)) : type \in SampleTypes}
    \cup {AddOp(ITEMS(type) \o <<"-">>, HiddenItem(type)) : type \in SampleTypes}
    \cup {AddOp(CUS \o <<"-">>, TypedCustomSection(type)) : type \in SampleTypes}
    \cup {AddOp(CUS \o <<"-">>, PartialCustomSection), AddOp(CUS \o <<"-">>, FullCustomSection)}

EntityReplaceOps == {
    ReplaceOp(EXP \o <<"a">>, PartialItem),
    ReplaceOp(EXP \o <<"1">>, PartialItem),
    ReplaceOp(EXP \o <<"1">>, HiddenItem("experience")),
    ReplaceOp(CUS \o <<"c1">>, TitleOnly),
    ReplaceOp(CUS \o <<"1">>, TitleOnly),
    ReplaceOp(CUS \o <<"c1", "items", "s1">>, BareItem("skills")),
    ReplaceOp(CUS \o <<"0", "items", "0">>, BareItem("skills")) }

\* Item a of the stored resume, whole, and its narrative field alone.
WholeItemA ==
    [root |-> Ref(1),
     nodes |-> <<Obj([id |-> Str("a"), hidden |-> Bool(FALSE), company |-> Str("acme"),
                      website |-> Ref(2)]),
                 Obj([url |-> Str(""), label |-> Str("")])>>]
AcmeOnly == [root |-> Ref(1), nodes |-> <<Obj([company |-> Str("acme")])>>]

EntityTestOps == {
    TestOp(EXP \o <<"a">>, WholeItemA),
    TestOp(EXP \o <<"a">>, AcmeOnly),
    TestOp(EXP \o <<"1", "company">>, Prim(Str("x"))) }

InitEntities ==
    \* the third target, after the two of Targets
    /\ tix = Cardinality(Targets) + 1
    /\ LET cl == structuredClone(FullTargetHeap, TargetRoot)
       IN /\ heap = cl.h
          /\ next = cl.v
          /\ originalCustomSectionIds = Range(customSectionIdSeq(FullTargetHeap, Prop(FullTargetHeap, TargetRoot, "data")))
    /\ patch = <<>>
    /\ flags = [touchesCustomSections |-> FALSE, touchesLayout |-> FALSE]
    /\ gen = 0
    /\ status = "running"
    /\ err = OK
    /\ result = Undef
    /\ HandlerIdle /\ DraftIdle /\ ReorderIdle

AddEntity == \E op \in EntityAddOps : Step(op)
ReplaceEntity == \E op \in EntityReplaceOps : Step(op)
TestEntity == \E op \in EntityTestOps : Step(op)

NextEntities == AddEntity \/ ReplaceEntity \/ TestEntity \/ Finish

SpecEntities == InitEntities /\ [][NextEntities]_vars

(***************************************************************************)
(* Batches of custom-section and layout operations on the two targets.     *)
(***************************************************************************)
\* A custom section whose id the sidebar of target 2 already holds.
StaleSection ==
    [root |-> Ref(1),
     nodes |-> <<Obj([id |-> Str("stale"), type |-> Str("skills"), title |-> Str("s")])>>]

SectionAddOps == {
    AddOp(CUS \o <<"-">>, PartialCustomSection),
    AddOp(CUS \o <<"0">>, PartialCustomSection),
    AddOp(CUS \o <<"-">>, FullCustomSection),
    AddOp(CUS \o <<"-">>, StaleSection) }

SectionEditOps == {
    RemoveOp(CUS \o <<"c1">>),
    ReplaceOp(CUS \o <<"c2", "title">>, Prim(Str("t"))),
    TestOp(CUS \o <<"c1", "title">>, Prim(Str("one"))),
    TestOp(<<"name">>, Prim(Str("resume"))) }

LayoutOps == {
    ReplaceOp(MAIN, LayoutIds),
    AddOp(MAIN \o <<"-">>, Prim(Str("nope"))),
    TestOp(MAIN \o <<"0">>, Prim(Str("summary"))) }

AddSection == \E op \in SectionAddOps : Step(op)
EditSection == \E op \in SectionEditOps : Step(op)
TouchLayout == \E op \in LayoutOps : Step(op)

NextLayout == AddSection \/ EditSection \/ TouchLayout \/ Finish

SpecLayout == Init /\ [][NextLayout]_vars

(***************************************************************************)
(* Batches of operations on the top-level fields, and of adds to array and *)
(* to object parents, on the two targets.                                  *)
(***************************************************************************)
TopLevelFields == {"name", "slug", "tags", "isPublic"}
TAGS == <<"tags">>
BASICS == <<"data", "basics">>
OneTag == [root |-> Ref(1), nodes |-> <<Arr(<<Str("t")>>)>>]

FieldRemoveOps == {RemoveOp(<<field>>) : field \in TopLevelFields}

FieldMoveOps ==
    {MoveOp(<<field>>, BASICS \o <<"name">>) : field \in TopLevelFields}
    \cup {MoveOp(BASICS \o <<"name">>, <<"name">>)}

FieldReplaceOps == {
    ReplaceOp(<<"name">>, Prim(Str("new"))),
    ReplaceOp(<<"slug">>, Prim(Str("new"))),
    ReplaceOp(<<"tags">>, OneTag),
    ReplaceOp(<<"isPublic">>, Prim(Bool(TRUE))) }

ArrayAddOps == {
    AddOp(TAGS \o <<"-">>, Prim(Str("t"))),
    AddOp(TAGS \o <<"0">>, Prim(Str("u"))),
    AddOp(TAGS \o <<"1">>, Prim(Str("v"))),
    AddOp(TAGS \o <<"2">>, Prim(Str("w"))),
    AddOp(EXP \o <<"1">>, PartialItem),
    AddOp(EXP \o <<"3">>, PartialItem) }

ObjectAddOps == {
    AddOp(BASICS \o <<"name">>, Prim(Str("bob"))),
    AddOp(BASICS \o <<"headline">>, Prim(Str("h"))),
    AddOp(<<"name">>, Prim(Str("n2"))) }

\* replace, remove and test of keys that exist, that do not, and that every
\* object inherits.
KeyReplaceOps == {
    ReplaceOp(TAGS \o <<"0">>, Prim(Str("r"))),
    ReplaceOp(TAGS \o <<"-">>, Prim(Str("r"))),
    ReplaceOp(BASICS \o <<"headline">>, Prim(Str("r"))),
    ReplaceOp(BASICS \o <<"name", "x">>, Prim(Str("r"))),
    ReplaceOp(BASICS \o <<"nope", "x">>, Prim(Str("r"))),
    ReplaceOp(BASICS \o <<"toString">>, Prim(Str("r"))) }

KeyRemoveOps == {
    RemoveOp(TAGS \o <<"0">>),
    RemoveOp(TAGS \o <<"-">>),
    RemoveOp(BASICS \o <<"headline">>),
    RemoveOp(BASICS \o <<"valueOf">>) }

KeyTestOps == {
    TestOp(TAGS \o <<"0">>, Prim(Str("t"))),
    TestOp(TAGS \o <<"-">>, Prim(Str("t"))),
    TestOp(BASICS \o <<"headline">>, Prim(Str("h"))),
    TestOp(BASICS \o <<"toString">>, Prim(Str("r"))) }

ReplaceKey == \E op \in KeyReplaceOps : Step(op)
RemoveKey == \E op \in KeyRemoveOps : Step(op)
TestKey == \E op \in KeyTestOps : Step(op)
\* move and copy from the end of an array, and a copy of an element.
PastEndOps == {
    MoveOp(TAGS \o <<"-">>, TAGS \o <<"0">>),
    MoveOp(EXP \o <<"-">>, EXP \o <<"0">>),
    CopyOp(TAGS \o <<"-">>, TAGS \o <<"0">>),
    CopyOp(EXP \o <<"-">>, EXP \o <<"0">>),
    CopyOp(TAGS \o <<"0">>, TAGS \o <<"-">>) }

FromPastEnd == \E op \in PastEndOps : Step(op)
RemoveField == \E op \in FieldRemoveOps : Step(op)
MoveField == \E op \in FieldMoveOps : Step(op)
ReplaceField == \E op \in FieldReplaceOps : Step(op)
AddToArray == \E op \in ArrayAddOps : Step(op)
AddToObject == \E op \in ObjectAddOps : Step(op)

NextKeys ==
    \/ RemoveField \/ MoveField \/ ReplaceField \/ AddToArray \/ AddToObject
    \/ ReplaceKey \/ RemoveKey \/ TestKey \/ FromPastEnd \/ Finish

SpecKeys == Init /\ [][NextKeys]_vars

(***************************************************************************)
(* Vocabulary of the properties.                                           *)
(***************************************************************************)
At(h, root, segs) == safeGetValueAtPath(h, root, segs)
IsEntityList(h, v) == IsArray(h, v) /\ \A i \in DOMAIN Elems(h, v) : IsObject(h, Elems(h, v)[i])
IdSeq(h, v) == [i \in DOMAIN Elems(h, v) |-> Own(h, Elems(h, v)[i], "id")]
IdSet(h, v) == Range(IdSeq(h, v))
LastOp == patch[Len(patch)].op
Stepped == Len(patch') = Len(patch) + 1
Consumed == patch'[Len(patch')].op
PAGES == <<"data", "metadata", "layout", "pages">>

\* C1: the caller's target, and everything nested in it, is structurally equal
\* to what the caller supplied, in every state of the call (running, thrown at
\* any operation, thrown by the synchronizer or the gate, returned).
C1_TargetNeverMutated == DeepEq(heap, TargetRoot, TargetHeap(tix), TargetRoot)

\* A call that failed after its working copy had diverged from the target.
C1_Witness ==
    /\ status = "failed"
    /\ Len(patch) = 2
    /\ ~DeepEq(heap, next, heap, TargetRoot)

\* C2: the first error ends the call: it is thrown (status failed, no document
\* returned), and after it nothing is processed any more.
C2_AllOrNothing ==
    [][/\ err # OK => UNCHANGED vars
       /\ err' # OK => status' = "failed" /\ result' = Undef]_vars

\* A move failed after its removal half ran on a working copy that an earlier
\* operation had already changed; nothing is returned.
C2_Witness ==
    /\ status = "failed"
    /\ Len(patch) = 2
    /\ LastOp = MoveOp(EXP \o <<"a">>, <<"data", "__proto__", "x">>)
    /\ patch[1].op = AddOp(EXP \o <<"-">>, PartialItem)
    /\ IdSeq(heap, At(heap, next, EXP)) = <<Str("0"), Str("g1")>>
    /\ result = Undef

\* The operations whose path addresses an experience item by the id x and that
\* can fail with PATCH_TARGET_NOT_FOUND only if the lookup of x fails.
ById(x) ==
    {ReplaceOp(EXP \o <<x, "company">>, Prim(Str("y"))),
     ReplaceOp(EXP \o <<x, "company">>, Prim(Str("w"))),
     RemoveOp(EXP \o <<x>>),
     AddOp(EXP \o <<x>>, PartialItem)}

\* C3: an operation sees the working document as the earlier operations left
\* it: while the experience list is a list of entities, an operation addressing
\* the id x in it finds x exactly if x is in the list now, whether or not x was
\* in the caller's target.
C3_SeesEarlierEffects ==
    [][\A x \in {"a", "g1", "ghost"} :
          (Stepped /\ Consumed \in ById(x) /\ IsEntityList(heap, At(heap, next, EXP)))
          => ((Str(x) \in IdSet(heap, At(heap, next, EXP))) <=> (err' # PATCH_TARGET_NOT_FOUND))]_vars

\* The item added by the first operation was addressed through its generated
\* id by the second and changed by it.
C3_Witness ==
    /\ Len(patch) = 2
    /\ patch[1].op = AddOp(EXP \o <<"-">>, PartialItem)
    /\ patch[2].op = ReplaceOp(EXP \o <<"g1", "company">>, Prim(Str("w")))
    /\ status = "running"
    /\ At(heap, next, EXP \o <<"2", "company">>) = Str("w")

\* C4: in a returned document every id in the main and the sidebar of every
\* page is `summary`, a section type, or the id of a custom section of the
\* returned document.
C4_LayoutIdsValid ==
    status = "returned" =>
        LET pages == At(heap, result, PAGES)
            custom == IdSet(heap, At(heap, result, CUS))
        IN \A i \in DOMAIN Elems(heap, pages) :
              \A col \in {"main", "sidebar"} :
                 \A id \in Range(Elems(heap, Own(heap, Elems(heap, pages)[i], col))) :
                    (id.t = "str" /\ id.s \in allowedLayoutIds) \/ id \in custom

\* Returned after a batch that removed the custom section the layout referred
\* to, from the target whose sidebar held a stale id.
C4_Witness ==
    /\ status = "returned"
    /\ tix = 2
    /\ Len(patch) = 2
    /\ patch[1].op = AddOp(MAIN \o <<"-">>, Prim(Str("nope")))
    /\ patch[2].op = RemoveOp(CUS \o <<"c1">>)
    /\ Elems(heap, At(heap, result, PAGES \o <<"0", "main">>)) = <<Str("summary")>>
    /\ Elems(heap, At(heap, result, PAGES \o <<"0", "sidebar">>)) = <<Str("experience")>>

Unique(ids) == \A i, j \in DOMAIN ids : i # j => ids[i] # ids[j]
SKILLS == <<"data", "sections", "skills", "items">>

\* C5: ids stay unique within each items list and within customSections of a
\* returned document (the targets have unique ids).
C5_IdsUnique ==
    status = "returned" =>
        /\ Unique(IdSeq(heap, At(heap, result, EXP)))
        /\ Unique(IdSeq(heap, At(heap, result, SKILLS)))
        /\ Unique(IdSeq(heap, At(heap, result, CUS)))
        /\ \A i \in DOMAIN Elems(heap, At(heap, result, CUS)) :
              Unique(IdSeq(heap, Own(heap, Elems(heap, At(heap, result, CUS))[i], "items")))

\* C6: a call that fails, fails with one of the four structured errors.
C6_StructuredErrorsOnly == status = "failed" => err \in ORPCErrorCodes

HasForbidden(path) == \E i \in DOMAIN path.raw : Unescape(path.raw[i]) \in forbiddenPathSegments
NamesForbidden(op) == HasForbidden(op.path) \/ (op.op \in {"move", "copy"} /\ HasForbidden(op.from))
\* The from of a move or copy resolves to a value that exists.
FromReadable(op) ==
    LET rf == resolvePatchPath(heap, op.from, op.op, next, op.op = "move")
    IN rf.err = OK /\ getValueAtPath(heap, next, rf.segs).err = OK

OthersUnchanged(list, k) ==
    /\ Elems(heap', list) = Elems(heap, list)
    /\ \A i \in DOMAIN Elems(heap, list) : i # k + 1 => heap'[Elems(heap, list)[i].r] = heap[Elems(heap, list)[i].r]
IndexOfId(list, id) ==
    (CHOOSE i \in DOMAIN Elems(heap, list) : Own(heap, Elems(heap, list)[i], "id") = Str(id)) - 1

\* replace .../items/<k>/company for a digit string k
DigitReplace(k, v) == ReplaceOp(EXP \o <<k, "company">>, Prim(Str(v)))
DigitReplaceActs(list, k, v) ==
    IF NumberOf(k) < Len(Elems(heap, list))
    THEN /\ err' = OK
         /\ Own(heap', Elems(heap, list)[NumberOf(k) + 1], "company") = Str(v)
         /\ OthersUnchanged(list, NumberOf(k))
    ELSE err' = PATCH_TARGET_NOT_FOUND
\* remove .../items/<k>
DigitRemoveActs(list, k) ==
    IF NumberOf(k) < Len(Elems(heap, list))
    THEN err' = OK /\ Elems(heap', list) = RemoveAt(Elems(heap, list), NumberOf(k))
    ELSE err' = PATCH_TARGET_NOT_FOUND
\* replace .../items/id/<x>/company
ExplicitReplaceActs(list, x, v) ==
    IF Str(x) \in IdSet(heap, list)
    THEN /\ err' = OK
         /\ Own(heap', Elems(heap, list)[IndexOfId(list, x) + 1], "company") = Str(v)
         /\ OthersUnchanged(list, IndexOfId(list, x))
    ELSE err' = PATCH_TARGET_NOT_FOUND

C8_Common(list) ==
    /\ Consumed = DigitReplace("0", "z") => DigitReplaceActs(list, "0", "z")
    /\ Consumed = DigitReplace("9", "z") => DigitReplaceActs(list, "9", "z")
    /\ Consumed = RemoveOp(EXP \o <<"0">>) => DigitRemoveActs(list, "0")
    /\ Consumed = ReplaceOp(EXP \o <<"id", "0", "company">>, Prim(Str("y")))
          => ExplicitReplaceActs(list, "0", "y")

\* C8 as stated: a digit segment is an index, and the operation fails with
\* PATCH_TARGET_NOT_FOUND when no element has that index; id/<value> finds the
\* entity by its id.
C8_DigitsAreIndices ==
    [][(Stepped /\ IsEntityList(heap, At(heap, next, EXP))) =>
          LET list == At(heap, next, EXP)
          IN /\ C8_Common(list)
             /\ \A k \in {"2", "9"} :
                   Consumed = AddOp(EXP \o <<k>>, PartialItem) =>
                      IF NumberOf(k) <= Len(Elems(heap, list))
                      THEN err' = OK /\ Len(Elems(heap', list)) = Len(Elems(heap, list)) + 1
                      ELSE err' = PATCH_TARGET_NOT_FOUND]_vars

\* C8 amended: as stated, except that a digit string that is the last segment
\* of an add is an insertion position: up to the length of the list it inserts
\* there (the length itself appends), and beyond it the add fails with
\* INVALID_PATCH_PATH.
C8_DigitsAmended ==
    [][(Stepped /\ IsEntityList(heap, At(heap, next, EXP))) =>
          LET list == At(heap, next, EXP)
          IN /\ C8_Common(list)
             /\ \A k \in {"2", "9"} :
                   Consumed = AddOp(EXP \o <<k>>, PartialItem) =>
                      IF NumberOf(k) <= Len(Elems(heap, list))
                      THEN /\ err' = OK
                           /\ Len(Elems(heap', list)) = Len(Elems(heap, list)) + 1
                           /\ RemoveAt(Elems(heap', list), NumberOf(k)) = Elems(heap, list)
                      ELSE err' = INVALID_PATCH_PATH]_vars

\* The segment 0 changed the first item although the second item has the id 0.
C8_Witness ==
    /\ Len(patch) = 1
    /\ LastOp = DigitReplace("0", "z")
    /\ status = "running"
    /\ At(heap, next, EXP \o <<"0", "company">>) = Str("z")
    /\ At(heap, next, EXP \o <<"1", "id">>) = Str("0")
    /\ At(heap, next, EXP \o <<"1", "company">>) = Str("beta")

IsPrefix(p, s) == Len(s) >= Len(p) /\ SubSeq(s, 1, Len(p)) = p
\* What the segment at position i of a raw path asks of the list before it.
Req(raw, i) ==
    IF Len(raw) < i THEN [k |-> "none", id |-> ""]
    ELSE IF raw[i] = "id"
         THEN IF Len(raw) > i /\ raw[i + 1] # "" THEN [k |-> "id", id |-> raw[i + 1]]
              ELSE [k |-> "marker", id |-> ""]
    ELSE IF raw[i] # "-" /\ ~isArrayIndex(raw[i]) THEN [k |-> "id", id |-> raw[i]]
    ELSE [k |-> "none", id |-> ""]
\* The items of the custom section that the third segment names by its id.
ItemsOfCustom(x) ==
    LET cs == At(heap, next, CUS)
    IN Own(heap, Elems(heap, cs)[CHOOSE i \in DOMAIN Elems(heap, cs) : Own(heap, Elems(heap, cs)[i], "id") = Str(x)], "items")
Requests(raw) ==
    (IF IsPrefix(EXP, raw) THEN {[list |-> At(heap, next, EXP), req |-> Req(raw, 5)]} ELSE {})
    \cup (IF IsPrefix(CUS, raw) THEN {[list |-> At(heap, next, CUS), req |-> Req(raw, 3)]} ELSE {})
    \cup (IF /\ IsPrefix(CUS, raw) /\ Len(raw) >= 5 /\ raw[4] = "items"
             /\ Req(raw, 3).k = "id"
             /\ IsEntityList(heap, At(heap, next, CUS))
             /\ Str(raw[3]) \in IdSet(heap, At(heap, next, CUS))
          THEN {[list |-> ItemsOfCustom(raw[3]), req |-> Req(raw, 5)]}
          ELSE {})
\* The path names by id an entity that its list does not hold.
Missing(path) ==
    /\ path.abs
    /\ ~HasForbidden(path)
    /\ \E q \in Requests(path.raw) :
          q.req.k = "id" /\ IsEntityList(heap, q.list) /\ Str(q.req.id) \notin IdSet(heap, q.list)
\* The path ends in the id marker.
MarkerOnly(path) ==
    /\ path.abs
    /\ \E q \in Requests(path.raw) : q.req.k = "marker"
    /\ IsPrefix(EXP, path.raw) => IsObject(heap, At(heap, next, <<"data", "sections">>))

\* C9: an operation of any kind that names by id (implicitly or as id/<value>)
\* an entity that is not in the entity list it addresses when the operation is
\* processed fails with PATCH_TARGET_NOT_FOUND, in its path and in the from of a
\* move or copy alike (the path of a move or copy is looked at once its from has
\* been read); an id marker without a value fails with INVALID_PATCH_PATH.
C9_MissingIdNotFound ==
    [][Stepped =>
          LET op == Consumed
          IN /\ (op.op \notin {"move", "copy"} /\ Missing(op.path)) => err' = PATCH_TARGET_NOT_FOUND
             /\ (op.op \in {"move", "copy"} /\ Missing(op.from)) => err' = PATCH_TARGET_NOT_FOUND
             /\ (/\ op.op \in {"move", "copy"}
                 /\ Missing(op.path)
                 /\ IsPrefix(EXP, op.from.raw) /\ Len(op.from.raw) > Len(EXP)
                 /\ FromReadable(op)) => err' = PATCH_TARGET_NOT_FOUND
             /\ (op.op \notin {"move", "copy"} /\ MarkerOnly(op.path)) => err' = INVALID_PATCH_PATH]_vars

\* An add that names an unknown id fails and inserts nothing.
C9_Witness ==
    /\ status = "failed"
    /\ err = PATCH_TARGET_NOT_FOUND
    /\ Len(patch) = 1
    /\ LastOp = AddOp(EXP \o <<"ghost">>, PartialItem)
    /\ IdSeq(heap, At(heap, next, EXP)) = <<Str("a"), Str("0")>>

\* The outcome of removing the value at from and then adding it at path.
RemoveThenAdd(op) ==
    LET rf == resolvePatchPath(heap, op.from, "move", next, TRUE)
        v == safeGetValueAtPath(heap, next, rf.segs)
        r1 == applyOther(heap, gen, flags, next,
                         [op |-> "remove", path |-> op.from, from |-> NoPath,
                          hasValue |-> FALSE, value |-> NoValue], Undef)
    IN IF rf.err # OK THEN Res(rf.err, heap, gen, flags)
       ELSE IF r1.err # OK THEN r1
       ELSE applyOther(r1.h, r1.gen, r1.flags, next,
                       [op |-> "add", path |-> op.path, from |-> NoPath,
                        hasValue |-> TRUE, value |-> NoValue], v)
MoveIsRemoveThenAdd ==
    (Stepped /\ Consumed.op = "move") =>
        LET r == RemoveThenAdd(Consumed)
        IN /\ (err' = OK) <=> (r.err = OK)
           /\ err' = OK => /\ DeepEq(heap', next, r.h, next)
                           /\ gen' = r.gen
                           /\ flags' = r.flags

\* The moves of the model that take an experience item to a place in the same list.
ItemMoves == {m \in MoveOps : /\ IsPrefix(EXP, m.from.raw) /\ Len(m.from.raw) > Len(EXP)
                              /\ IsPrefix(EXP, m.path.raw) /\ Len(m.path.raw) > Len(EXP)}
\* The list after the step is the list before it with one item taken out and
\* put back, with the same value, at some place.
ItemMovedUnchanged(list) ==
    \E i \in DOMAIN Elems(heap, list), j \in DOMAIN Elems(heap', list) :
        /\ RemoveAt(Elems(heap, list), i - 1) = RemoveAt(Elems(heap', list), j - 1)
        /\ DeepEq(heap, Elems(heap, list)[i], heap', Elems(heap', list)[j])
FirstToEnd(list) ==
    (Consumed = MoveOp(EXP \o <<"0">>, EXP \o <<"-">>) /\ Len(Elems(heap, list)) = 2) =>
        /\ Len(Elems(heap', list)) = 2
        /\ Elems(heap', list)[1] = Elems(heap, list)[2]
        /\ DeepEq(heap, Elems(heap, list)[1], heap', Elems(heap', list)[2])
\* The item carries every field the normalizer governs for experience items.
Governed(h, item) ==
    /\ Own(h, item, "id") # Undef
    /\ Own(h, item, "hidden") # Undef
    /\ Own(h, item, "website") # Undef
AllGoverned(list) == \A i \in DOMAIN Elems(heap, list) : Governed(heap, Elems(heap, list)[i])

\* C10 as stated: a move is a remove followed by an add of the same value at
\* the path resolved after the removal, and the moved item keeps its value,
\* id included, so that the first of [A, B] moved to - gives [B, A].
C10_MoveKeepsValue ==
    [][/\ MoveIsRemoveThenAdd
       /\ (Stepped /\ Consumed \in ItemMoves /\ err' = OK) =>
             /\ ItemMovedUnchanged(At(heap, next, EXP))
             /\ FirstToEnd(At(heap, next, EXP))]_vars

\* C10 amended: a move is a remove followed by an add of the same value at the
\* path resolved after the removal; the moved item keeps its value, id
\* included, when it already carries the fields the normalizer governs (id,
\* hidden, website), and the first of such [A, B] moved to - gives [B, A].
C10_MoveAmended ==
    [][/\ MoveIsRemoveThenAdd
       /\ (Stepped /\ Consumed \in ItemMoves /\ err' = OK /\ AllGoverned(At(heap, next, EXP))) =>
             /\ ItemMovedUnchanged(At(heap, next, EXP))
             /\ FirstToEnd(At(heap, next, EXP))]_vars

\* [A, B] after moving its first item to the end: [B, A], values as in the target.
C10_Witness ==
    /\ status = "running"
    /\ Len(patch) = 1
    /\ LastOp = MoveOp(EXP \o <<"0">>, EXP \o <<"-">>)
    /\ IdSeq(heap, At(heap, next, EXP)) = <<Str("0"), Str("a")>>
    /\ DeepEq(heap, At(heap, next, EXP \o <<"1">>), TargetHeap(tix), At(TargetHeap(tix), TargetRoot, EXP \o <<"0">>))
    /\ DeepEq(heap, At(heap, next, EXP \o <<"0">>), TargetHeap(tix), At(TargetHeap(tix), TargetRoot, EXP \o <<"1">>))

\* The value a move or copy reads at its from.
SourceOf(op) ==
    safeGetValueAtPath(heap, next, resolvePatchPath(heap, op.from, op.op, next, op.op = "move").segs)
\* A copy of an experience item to the end of the experience list has succeeded.
CopiedItem ==
    /\ Stepped /\ Consumed.op = "copy" /\ err' = OK
    /\ Consumed.path.raw = EXP \o <<"-">>
    /\ IsEntityList(heap, At(heap, next, EXP))
\* The source and every other item stay where and what they were, and the
\* inserted value shares no object with them.
CopyIsApart(list) ==
    LET pre == Elems(heap, list)
        post == Elems(heap', list)
    IN /\ Len(post) = Len(pre) + 1
       /\ SubSeq(post, 1, Len(pre)) = pre
       /\ \A i \in DOMAIN pre :
             /\ DeepEq(heap, pre[i], heap', pre[i])
             /\ Reach(heap', post[Len(post)]) \cap Reach(heap', pre[i]) = {}
CopyEqualsSource(list) ==
    DeepEq(heap, SourceOf(Consumed), heap', Elems(heap', list)[Len(Elems(heap', list))])
\* replace of the url inside the website of the item at index k
NestedReplace(k) == ReplaceOp(EXP \o <<k, "website", "url">>, Prim(Str("v")))
\* A change inside one item leaves every other item of the list as it was.
NestedReplaceIsLocal ==
    \A k \in {"0", "2"} :
        (Stepped /\ Consumed = NestedReplace(k) /\ err' = OK) =>
            LET pre == Elems(heap, At(heap, next, EXP))
            IN /\ Elems(heap', At(heap, next, EXP)) = pre
               /\ \A i \in DOMAIN pre : i # NumberOf(k) + 1 => DeepEq(heap, pre[i], heap', pre[i])

\* C11 as stated: a copy leaves the source in place and inserts a value that is
\* deep-equal to the source and shares nothing with it, so that a later change
\* of the copy leaves the source unchanged and the other way round.
C11_CopyDeepEqualApart ==
    [][/\ CopiedItem => /\ CopyIsApart(At(heap, next, EXP))
                        /\ CopyEqualsSource(At(heap, next, EXP))
       /\ NestedReplaceIsLocal]_vars

\* C11 amended: as stated, the inserted value being deep-equal to the source
\* when the source carries the fields the normalizer governs (id, hidden,
\* website); a field of these that the source lacks is filled in on the copy.
C11_CopyAmended ==
    [][/\ CopiedItem => /\ CopyIsApart(At(heap, next, EXP))
                        /\ Governed(heap, SourceOf(Consumed)) => CopyEqualsSource(At(heap, next, EXP))
       /\ NestedReplaceIsLocal]_vars

\* The copy of item a was changed inside its website; the source was not.
C11_Witness ==
    /\ status = "running"
    /\ Len(patch) = 2
    /\ patch[1].op = CopyOp(EXP \o <<"id", "a">>, EXP \o <<"-">>)
    /\ LastOp = NestedReplace("2")
    /\ IdSeq(heap, At(heap, next, EXP)) = <<Str("a"), Str("0"), Str("a")>>
    /\ At(heap, next, EXP \o <<"2", "website", "url">>) = Str("v")
    /\ At(heap, next, EXP \o <<"0", "website", "url">>) = Str("")

\* The nine section types whose items have a website, the three whose items
\* have an icon.
WebsiteTypes ==
    {"awards", "certifications", "education", "experience", "projects",
     "publications", "references", "volunteer", "profiles"}
IconTypes == {"profiles", "skills", "interests"}
\* The value the caller sent with the operation just consumed, in its own heap.
Payload == Place(heap, Consumed.value)
Sent(key) == Defined(Fields(Payload.h, Payload.v), key)
\* The path of the operation just consumed, ids resolved against the document
\* before it.
ResolvedPath == resolvePatchPath(heap, Consumed.path, Consumed.op, next, FALSE).segs
\* A replace of an entity by an object has succeeded.
ReplacedEntity ==
    /\ Stepped /\ Consumed.op = "replace" /\ err' = OK
    /\ IsObject(Payload.h, Payload.v)
    /\ \/ isSectionItemPath(ResolvedPath)
       \/ isCustomSectionPath(ResolvedPath)
       \/ isCustomSectionItemPath(ResolvedPath)
    /\ IsObject(heap, At(heap, next, ResolvedPath))
\* The fields of the replaced entity the claim names.
KeptFields ==
    IF isCustomSectionPath(ResolvedPath) THEN {"id", "hidden", "type"}
    ELSE LET type == IF isSectionItemPath(ResolvedPath) THEN Str(ResolvedPath[3])
                     ELSE Own(heap, At(heap, next, SubSeq(ResolvedPath, 1, 3)), "type")
         IN {"id", "hidden"}
            \cup (IF InTypes(type, WebsiteTypes) THEN {"website"} ELSE {})
            \cup (IF InTypes(type, IconTypes) THEN {"icon"} ELSE {})
ReplaceKeeps(key) ==
    (~Sent(key) /\ ~IsNullish(Own(heap, At(heap, next, ResolvedPath), key))) =>
        DeepEq(heap, Own(heap, At(heap, next, ResolvedPath), key),
               heap', Own(heap', At(heap', next, ResolvedPath), key))

\* C12: a replace of a section item, a custom-section item or a custom section,
\* by id or by index, whose payload omits id, hidden, website or icon (for the
\* item types that have them) or the type of a custom section, leaves the
\* entity with the value the field had before the replace.
C12_ReplaceKeepsGoverned ==
    [][ReplacedEntity => \A key \in KeptFields : ReplaceKeeps(key)]_vars

\* Item B was replaced by index and custom section c1 by id, each with a
\* payload of one narrative field; both kept what they had.
C12_Witness ==
    /\ status = "running"
    /\ Len(patch) = 2
    /\ patch[1].op = ReplaceOp(EXP \o <<"1">>, PartialItem)
    /\ LastOp = ReplaceOp(CUS \o <<"c1">>, TitleOnly)
    /\ At(heap, next, EXP \o <<"1", "id">>) = Str("0")
    /\ At(heap, next, EXP \o <<"1", "hidden">>) = Bool(TRUE)
    /\ At(heap, next, EXP \o <<"1", "website", "url">>) = Str("u")
    /\ At(heap, next, EXP \o <<"1", "company">>) = Str("x")
    /\ At(heap, next, CUS \o <<"0", "id">>) = Str("c1")
    /\ At(heap, next, CUS \o <<"0", "type">>) = Str("skills")
    /\ At(heap, next, CUS \o <<"0", "title">>) = Str("t2")

\* An item stored for a payload item of a section type: what the caller sent is
\* unchanged and every omitted field has the default of the type.
ItemStored(ph, sentItem, type, stored) ==
    LET sent == Fields(ph, sentItem)
        got == Fields(heap', stored)
    IN /\ \A key \in DOMAIN sent : DeepEq(ph, sent[key], heap', Own(heap', stored, key))
       /\ DOMAIN got = DOMAIN sent \cup {"id", "hidden"}
                          \cup (IF type \in WebsiteTypes THEN {"website"} ELSE {})
                          \cup (IF type \in IconTypes THEN {"icon"} ELSE {})
       /\ ~Defined(sent, "id") => IsStr(got["id"]) /\ got["id"].s # ""
       /\ ~Defined(sent, "hidden") => got["hidden"] = Bool(FALSE)
       /\ (~Defined(sent, "website") /\ type \in WebsiteTypes) =>
             /\ IsObject(heap', got["website"])
             /\ Fields(heap', got["website"]) = [url |-> Str(""), label |-> Str("")]
       /\ (~Defined(sent, "icon") /\ type \in IconTypes) => got["icon"] = Str("")
Last(h, list) == Elems(h, list)[Len(Elems(h, list))]
\* An add of an item object at the end of the items of a section has succeeded.
AddedItem(type) ==
    /\ Stepped /\ Consumed.op = "add" /\ err' = OK
    /\ Consumed.path.raw = ITEMS(type) \o <<"-">>
    /\ IsObject(Payload.h, Payload.v)
\* An add of a custom section object at the end of customSections has succeeded.
AddedCustomSection ==
    /\ Stepped /\ Consumed.op = "add" /\ err' = OK
    /\ Consumed.path.raw = CUS \o <<"-">>
    /\ IsObject(Payload.h, Payload.v)
CustomSectionStored(ph, sentSection, stored) ==
    LET sent == Fields(ph, sentSection)
        got == Fields(heap', stored)
    IN /\ \A key \in DOMAIN sent \ {"items"} : DeepEq(ph, sent[key], heap', Own(heap', stored, key))
       /\ DOMAIN got = DOMAIN sent \cup {"id", "hidden", "columns", "title", "type", "items"}
       /\ ~Defined(sent, "id") => IsStr(got["id"]) /\ got["id"].s # ""
       /\ ~Defined(sent, "hidden") => got["hidden"] = Bool(FALSE)
       /\ ~Defined(sent, "columns") => got["columns"] = Num("1")
       /\ ~Defined(sent, "title") => got["title"] = Str("")
       /\ ~Defined(sent, "items") => IsArray(heap', got["items"]) /\ Elems(heap', got["items"]) = <<>>
       /\ (Defined(sent, "items") /\ IsArray(ph, sent["items"]) /\ Defined(sent, "type")) =>
             /\ IsArray(heap', got["items"])
             /\ Len(Elems(heap', got["items"])) = Len(Elems(ph, sent["items"]))
             /\ \A i \in DOMAIN Elems(ph, sent["items"]) :
                   ItemStored(ph, Elems(ph, sent["items"])[i], sent["type"].s,
                              Elems(heap', got["items"])[i])

\* C13: an added item of any of the twelve section types is stored with every
\* omitted governed field at its default (a non-empty id, hidden false, an
\* empty website exactly for the nine website types, an empty icon exactly for
\* profiles, skills and interests); an added custom section is stored with a
\* non-empty id, hidden false, columns 1, title "" and items [] where omitted
\* and with each of its items normalized by its type; what the caller supplied
\* is stored unchanged.
C13_AddFillsDefaults ==
    [][/\ \A type \in sectionTypeSchema :
             AddedItem(type) =>
                ItemStored(Payload.h, Payload.v, type, Last(heap', At(heap', next, ITEMS(type))))
       /\ AddedCustomSection =>
             CustomSectionStored(Payload.h, Payload.v, Last(heap', At(heap', next, CUS)))]_vars

\* A bare profiles item and a custom section of type skills with two items
\* were added.
C13_Witness ==
    /\ status = "running"
    /\ Len(patch) = 2
    /\ patch[1].op = AddOp(ITEMS("profiles") \o <<"-">>, BareItem("profiles"))
    /\ LastOp = AddOp(CUS \o <<"-">>, TypedCustomSection("skills"))
    /\ At(heap, next, ITEMS("profiles") \o <<"0", "id">>) = Str("g1")
    /\ At(heap, next, ITEMS("profiles") \o <<"0", "hidden">>) = Bool(FALSE)
    /\ At(heap, next, ITEMS("profiles") \o <<"0", "website", "url">>) = Str("")
    /\ At(heap, next, ITEMS("profiles") \o <<"0", "icon">>) = Str("")
    /\ At(heap, next, CUS \o <<"2", "columns">>) = Num("1")
    /\ At(heap, next, CUS \o <<"2", "hidden">>) = Bool(FALSE)
    /\ At(heap, next, CUS \o <<"2", "items", "0", "icon">>) = Str("")
    /\ At(heap, next, CUS \o <<"2", "items", "0", "website">>) = Undef
    /\ At(heap, next, CUS \o <<"2", "items", "1", "id">>) = Str("p")

\* A test has been applied to a path at which the document has a value.
TestedValue ==
    /\ Stepped /\ Consumed.op = "test"
    /\ resolvePatchPath(heap, Consumed.path, "test", next, FALSE).err = OK
    /\ getValueAtPath(heap, next, ResolvedPath).err = OK
\* The working document is node for node what it was.
DocumentUntouched == SubSeq(heap', 1, Len(heap)) = heap /\ Reach(heap', next) = Reach(heap, next)

\* C14: a test fails with PATCH_CONFLICT exactly when the value the document
\* has at the path is not deep-equal to the literal as the caller sent it,
\* neither side being normalized, and a test, passing or failing, leaves the
\* working document unchanged.
C14_TestComparesAsSent ==
    [][/\ (Stepped /\ Consumed.op = "test") => DocumentUntouched
       /\ TestedValue =>
             err' = IF DeepEq(heap, getValueAtPath(heap, next, ResolvedPath).v, Payload.h, Payload.v)
                    THEN OK ELSE PATCH_CONFLICT]_vars

\* The test of item a against the whole item passed, the test against its
\* narrative field alone failed with PATCH_CONFLICT; the document is the target.
C14_Witness ==
    /\ status = "failed" /\ err = PATCH_CONFLICT
    /\ Len(patch) = 2
    /\ patch[1].op = TestOp(EXP \o <<"a">>, WholeItemA)
    /\ LastOp = TestOp(EXP \o <<"a">>, AcmeOnly)
    /\ DeepEq(heap, next, FullTargetHeap, TargetRoot)

LAYOUT == <<"data", "metadata", "layout">>
\* The batch consumed so far has an operation whose path, or whose from if it
\* is a move, lies under the prefix.
Touches(prefix) ==
    \E i \in DOMAIN patch :
        \/ IsPrefix(prefix, patch[i].op.path.raw)
        \/ patch[i].op.op = "move" /\ IsPrefix(prefix, patch[i].op.from.raw)
Column(h, root, i, col) == Elems(h, Own(h, Elems(h, At(h, root, PAGES))[i], col))
\* The ids the pages of a document refer to.
LayoutIdSet(h, root) ==
    UNION {Range(Column(h, root, i, col)) :
             i \in DOMAIN Elems(h, At(h, root, PAGES)), col \in {"main", "sidebar"}}
\* The ids of the custom sections of the caller's target.
TargetCustomIds == IdSet(TargetHeap(tix), At(TargetHeap(tix), TargetRoot, CUS))

\* C15: after a batch that did not touch the layout, a custom section of the
\* target that no page of the target referred to is referred to by no page of
\* the returned document: only ids absent from the target's customSections are
\* auto-attached.
C15_NoReinsertion ==
    (status = "returned" /\ ~Touches(LAYOUT)) =>
        \A id \in TargetCustomIds :
            id \notin LayoutIdSet(TargetHeap(tix), TargetRoot) => id \notin LayoutIdSet(heap, result)

\* A custom section was added: it was attached, and c2, which the target has
\* and no page refers to, was not.
C15_Witness ==
    /\ status = "returned"
    /\ Len(patch) = 1
    /\ LastOp = AddOp(CUS \o <<"-">>, PartialCustomSection)
    /\ Str("c2") \in IdSet(heap, At(heap, result, CUS))
    /\ Str("c2") \in TargetCustomIds \ LayoutIdSet(TargetHeap(tix), TargetRoot)
    /\ Column(heap, result, 1, "main") = <<Str("summary"), Str("c1"), Str("g1")>>

\* The loop has ended and the call returns.
Returns == status = "running" /\ status' = "returned"
\* The ids of a column that are built-in or the id of a custom section of the
\* working document.
Pruned(ids) ==
    SelectSeq(ids, LAMBDA id : \/ id \in {Str(x) : x \in {"summary"} \cup sectionTypeSchema}
                               \/ id \in IdSet(heap, At(heap, next, CUS)))
\* Every column of every page is returned as the working document has it,
\* pruned, with nothing appended.
NothingAttached ==
    /\ Len(Elems(heap', At(heap', result', PAGES))) = Len(Elems(heap, At(heap, next, PAGES)))
    /\ \A i \in DOMAIN Elems(heap, At(heap, next, PAGES)) :
          \A col \in {"main", "sidebar"} :
             Column(heap', result', i, col) = Pruned(Column(heap, next, i, col))

\* C16: when the batch had an operation under /data/metadata/layout, before or
\* after the operations on customSections, the returned pages hold no id that
\* the working document's pages did not hold at the end of the loop.
C16_LayoutTouchSuppresses ==
    [][(Returns /\ Touches(LAYOUT)) => NothingAttached]_vars

\* Main was replaced and then a custom section added; the returned main is the
\* replacement pruned, without the id of the new section.
C16_Witness ==
    /\ status = "returned"
    /\ Len(patch) = 2
    /\ patch[1].op = ReplaceOp(MAIN, LayoutIds)
    /\ patch[2].op = AddOp(CUS \o <<"-">>, PartialCustomSection)
    /\ Str("g1") \in IdSet(heap, At(heap, result, CUS))
    /\ Column(heap, result, 1, "main") = <<Str("summary")>>

\* The places of the pages of a document that hold the id.
RefsTo(h, root, id) ==
    UNION {{<<i, col, j>> : j \in {k \in DOMAIN Column(h, root, i, col) : Column(h, root, i, col)[k] = id}} :
             i \in DOMAIN Elems(h, At(h, root, PAGES)), col \in {"main", "sidebar"}}
\* The ids of the working document's custom sections that the target does not
\* have and no pruned column holds, in customSections order.
NewUnreferenced ==
    SelectSeq(IdSeq(heap, At(heap, next, CUS)),
              LAMBDA id : /\ id \notin TargetCustomIds
                          /\ \A i \in DOMAIN Elems(heap, At(heap, next, PAGES)) :
                                \A col \in {"main", "sidebar"} :
                                   id \notin Range(Pruned(Column(heap, next, i, col))))
\* The first page's main is returned pruned with the new unreferenced ids at
\* its end; every other column is returned pruned.
AttachedAtEndOfFirstMain ==
    /\ Len(Elems(heap', At(heap', result', PAGES))) = Len(Elems(heap, At(heap, next, PAGES)))
    /\ \A i \in DOMAIN Elems(heap, At(heap, next, PAGES)) :
          \A col \in {"main", "sidebar"} :
             Column(heap', result', i, col) =
                Pruned(Column(heap, next, i, col))
                   \o (IF i = 1 /\ col = "main" THEN NewUnreferenced ELSE <<>>)
EachNewIdOnce ==
    \A id \in IdSet(heap', At(heap', result', CUS)) \ TargetCustomIds :
        Cardinality(RefsTo(heap', result', id)) = 1

\* C17: a batch with an operation under /data/customSections and none under
\* /data/metadata/layout returns a layout in which every custom-section id the
\* target did not have occurs exactly once: the new ids no page holds are
\* appended, in customSections order, to the end of the first page's main, and
\* the layout is otherwise the working layout pruned.
C17_AutoAttachOnce ==
    [][(Returns /\ Touches(CUS) /\ ~Touches(LAYOUT)) =>
          (AttachedAtEndOfFirstMain /\ EachNewIdOnce)]_vars

\* The batch consumed so far is empty or made of tests.
NothingMutated == \A i \in DOMAIN patch : patch[i].op.op = "test"
\* C18: a batch that is empty or made of tests that all match returns a
\* document deep-equal to the target, layout included.
C18_RoundTrip ==
    (status = "returned" /\ NothingMutated) => DeepEq(heap, result, TargetHeap(tix), TargetRoot)


\* C19: a remove of /name, /slug, /tags or /isPublic and a move from one of
\* them fail with INVALID_PATCH_PATH, a replace of one of them is applied, and
\* a returned document has the four fields.
C19_TopLevelKept ==
    [][/\ Stepped =>
             /\ (Consumed.op = "remove" /\ Consumed.path.raw \in {<<field>> : field \in TopLevelFields})
                   => err' = INVALID_PATCH_PATH
             /\ (Consumed.op = "move" /\ Consumed.from.raw \in {<<field>> : field \in TopLevelFields})
                   => err' = INVALID_PATCH_PATH
             /\ (Consumed.op = "replace" /\ Consumed.path.raw \in {<<field>> : field \in TopLevelFields})
                   => /\ err' = OK
                      /\ At(heap', next, Consumed.path.raw) = patch'[Len(patch')].value
       /\ Returns => \A field \in TopLevelFields : Own(heap', result', field) # Undef]_vars

\* The name was replaced and its removal then rejected; the working document
\* has the new name.
C19_Witness ==
    /\ status = "failed" /\ err = INVALID_PATCH_PATH
    /\ Len(patch) = 2
    /\ patch[1].op = ReplaceOp(<<"name">>, Prim(Str("new")))
    /\ LastOp = RemoveOp(<<"name">>)
    /\ At(heap, next, <<"name">>) = Str("new")

\* An add whose path is valid and whose parent exists.
AddReaches ==
    /\ Stepped /\ Consumed.op = "add" /\ Consumed.hasValue
    /\ resolvePatchPath(heap, Consumed.path, "add", next, FALSE).err = OK
    /\ getParentAndKey(heap, next, ResolvedPath).err = OK
AddParent == getParentAndKey(heap, next, ResolvedPath).parent
AddKey == getParentAndKey(heap, next, ResolvedPath).key
\* The value stored is the value sent: a primitive as it is, an object with
\* every field it was sent with.
StoredAsSent(stored) ==
    IF IsObject(Payload.h, Payload.v)
    THEN /\ IsObject(heap', stored)
         /\ \A key \in DOMAIN Fields(Payload.h, Payload.v) :
               DeepEq(Payload.h, Fields(Payload.h, Payload.v)[key], heap', Own(heap', stored, key))
    ELSE DeepEq(Payload.h, Payload.v, heap', stored)
\* The elements of the array after the add are those before it with the value
\* before position k.
InsertedBefore(k) ==
    LET pre == Elems(heap, AddParent)
        post == Elems(heap', AddParent)
    IN /\ err' = OK
       /\ Len(post) = Len(pre) + 1
       /\ \A i \in DOMAIN pre :
             /\ post[IF i <= k THEN i ELSE i + 1] = pre[i]
             /\ DeepEq(heap, pre[i], heap', pre[i])
       /\ StoredAsSent(post[k + 1])

\* C20: an add to an array of length n appends for the key `-`, inserts before
\* position k for a digit key k <= n leaving the other elements as they were
\* and one place later from k on, and fails with INVALID_PATCH_PATH leaving the
\* array unchanged for a digit key k > n; an add to an object sets the key,
\* present or not, and leaves the other keys.
C20_AddByParent ==
    [][AddReaches =>
          IF IsArray(heap, AddParent)
          THEN /\ AddKey = "-" => InsertedBefore(Len(Elems(heap, AddParent)))
               /\ (isArrayIndex(AddKey) /\ NumberOf(AddKey) <= Len(Elems(heap, AddParent)))
                     => InsertedBefore(NumberOf(AddKey))
               /\ (isArrayIndex(AddKey) /\ NumberOf(AddKey) > Len(Elems(heap, AddParent)))
                     => /\ err' = INVALID_PATCH_PATH
                        /\ Elems(heap', AddParent) = Elems(heap, AddParent)
          ELSE IsObject(heap, AddParent) =>
                  /\ err' = OK
                  /\ StoredAsSent(Own(heap', AddParent, AddKey))
                  /\ DOMAIN Fields(heap', AddParent) = DOMAIN Fields(heap, AddParent) \cup {AddKey}
                  /\ \A key \in DOMAIN Fields(heap, AddParent) \ {AddKey} :
                        Fields(heap', AddParent)[key] = Fields(heap, AddParent)[key]]_vars

\* A tag was appended and another inserted before it.
C20_Witness ==
    /\ status = "running"
    /\ Len(patch) = 2
    /\ patch[1].op = AddOp(TAGS \o <<"-">>, Prim(Str("t")))
    /\ LastOp = AddOp(TAGS \o <<"0">>, Prim(Str("u")))
    /\ Elems(heap, At(heap, next, TAGS)) = <<Str("u"), Str("t")>>


\* A replace, remove or test whose path is valid and resolves.
AppliesToTarget ==
    /\ Stepped /\ Consumed.op \in {"replace", "remove", "test"}
    /\ Consumed.op = "remove" \/ Consumed.hasValue
    /\ resolvePatchPath(heap, Consumed.path, Consumed.op, next, FALSE).err = OK
\* The document has the target: the walk reaches the parent, and the key is an
\* index below the length of an array parent or a key of an object parent.
TargetExists ==
    LET pk == getParentAndKey(heap, next, ResolvedPath)
    IN /\ pk.err = OK
       /\ IF IsArray(heap, pk.parent)
          THEN isArrayIndex(pk.key) /\ NumberOf(pk.key) < Len(Elems(heap, pk.parent))
          ELSE IsObject(heap, pk.parent) /\ pk.key \in DOMAIN Fields(heap, pk.parent)

\* C21: a replace, remove or test whose target the document does not have
\* fails with PATCH_TARGET_NOT_FOUND and changes nothing; one whose target it
\* has does not fail with that error.
C21_TargetMustExist ==
    [][AppliesToTarget =>
          IF TargetExists THEN err' # PATCH_TARGET_NOT_FOUND
          ELSE err' = PATCH_TARGET_NOT_FOUND /\ SubSeq(heap', 1, Len(heap)) = heap]_vars


\* A move or copy whose from is `-` after the path of an array of the document.
FromAppendMarker ==
    /\ Stepped /\ Consumed.op \in {"move", "copy"}
    /\ Len(Consumed.from.raw) > 1
    /\ Consumed.from.raw[Len(Consumed.from.raw)] = "-"
    /\ IsArray(heap, At(heap, next, SubSeq(Consumed.from.raw, 1, Len(Consumed.from.raw) - 1)))

\* C22: a move or copy whose from ends in `-` fails with INVALID_PATCH_PATH and
\* leaves the document as it was: nothing is removed, nothing inserted.
C22_FromAppendRejected ==
    [][FromAppendMarker => err' = INVALID_PATCH_PATH /\ heap' = heap]_vars

\* A tag was added and the move from the end of tags rejected; the tag is
\* where it was.
C22_Witness ==
    /\ status = "failed" /\ err = INVALID_PATCH_PATH
    /\ Len(patch) = 2
    /\ patch[1].op = AddOp(TAGS \o <<"-">>, Prim(Str("t")))
    /\ LastOp = MoveOp(TAGS \o <<"-">>, TAGS \o <<"0">>)
    /\ Elems(heap, At(heap, next, TAGS)) = <<Str("t")>>

(***************************************************************************)
(* The PATCH route of /api/resume/$id.  A header value is the sequence of  *)
(* its tokens: a media type or parameter, the separator ";" or a blank.    *)
(***************************************************************************)
EngineIdle ==
    /\ heap = <<>> /\ next = Undef /\ patch = <<>>
    /\ flags = [touchesCustomSections |-> FALSE, touchesLayout |-> FALSE]
    /\ originalCustomSectionIds = {} /\ gen = 0
    /\ status = "idle" /\ err = OK /\ result = Undef /\ tix = 0

NoHeader == [present |-> FALSE, tokens |-> <<>>]
Header(tokens) == [present |-> TRUE, tokens |-> tokens]

\* String.prototype.split(";") on a header value: the segments between
\* separators, an empty one where two separators meet or the value ends.
RECURSIVE split(_)
split(tokens) ==
    IF \A i \in 1..Len(tokens) : tokens[i] # ";" THEN <<tokens>>
    ELSE LET i == CHOOSE j \in 1..Len(tokens) :
                     tokens[j] = ";" /\ \A k \in 1..(j - 1) : tokens[k] # ";"
         IN <<SubSeq(tokens, 1, i - 1)>> \o split(SubSeq(tokens, i + 1, Len(tokens)))

\* String.prototype.trim(): the blanks at both ends go.
RECURSIVE trim(_)
trim(tokens) ==
    IF tokens # <<>> /\ tokens[1] = " " THEN trim(Tail(tokens))
    ELSE IF tokens # <<>> /\ tokens[Len(tokens)] = " " THEN trim(SubSeq(tokens, 1, Len(tokens) - 1))
    ELSE tokens

\* String.prototype.toLowerCase() on the tokens the requests carry.
toLowerCase(tokens) ==
    [i \in 1..Len(tokens) |->
        CASE tokens[i] = "Application/JSON" -> "application/json"
          [] tokens[i] = "APPLICATION/JSON-PATCH+JSON" -> "application/json-patch+json"
          [] tokens[i] = "Text/Plain" -> "text/plain"
          [] OTHER -> tokens[i]]

isJsonPatchContentTypeAsSent(contentType) ==
    IF ~contentType.present \/ contentType.tokens = <<>> THEN FALSE
    ELSE LET type == trim(split(contentType.tokens)[1])
         IN type = <<"application/json-patch+json">> \/ type = <<"application/json">>
isJsonPatchContentType(contentType) ==
    IF ~contentType.present \/ contentType.tokens = <<>> THEN FALSE
    ELSE LET type == toLowerCase(trim(split(contentType.tokens)[1]))
         IN type = <<"application/json-patch+json">> \/ type = <<"application/json">>

\* auth.api.verifyApiKey and the user table behind it; auth.api.getSession.
getUserFromApiKey(apiKey) ==
    IF apiKey = <<"key-of-u1">> THEN Str("u1") ELSE Null
getUserFromHeaders(headers) ==
    IF headers.cookie = Header(<<"session-of-u1">>) THEN Str("u1") ELSE Null
resolveUserFromHeaders(headers) ==
    IF headers.apiKey.present /\ headers.apiKey.tokens # <<>>
    THEN getUserFromApiKey(headers.apiKey.tokens)
    ELSE getUserFromHeaders(headers)

\* jsonPatchPathSchema: z.string().min(1).
jsonPatchPathSchema(v) == v.t = "str" /\ v.s # ""
jsonPatchOpSchema(o) ==
    CASE o.op \in {"add", "replace", "remove", "test"} -> jsonPatchPathSchema(o.path)
      [] o.op \in {"move", "copy"} -> jsonPatchPathSchema(o.from) /\ jsonPatchPathSchema(o.path)
      [] OTHER -> FALSE
jsonPatchSchema(payload) ==
    /\ payload.kind = "array"
    /\ \A i \in 1..Len(payload.elems) : jsonPatchOpSchema(payload.elems[i])

\* handleError: the status of an ORPCError that carries one, 500 otherwise.
handleError(error) ==
    IF error.orpc
    THEN [status |-> IF error.hasStatus THEN error.status ELSE 500, code |-> error.code]
    ELSE [status |-> 500, code |-> "INTERNAL_SERVER_ERROR"]

\* The requests of the model.
WireOp(op, path, from) == [op |-> op, path |-> path, from |-> from]
ContentTypes == {
    NoHeader,
    Header(<<>>),
    Header(<<"application/json">>),
    Header(<<"application/json-patch+json">>),
    Header(<<"Application/JSON">>),
    Header(<<"APPLICATION/JSON-PATCH+JSON">>),
    Header(<<"application/json", ";", " ", "charset=utf-8">>),
    Header(<<"application/json-patch+json", " ", ";", "charset=utf-8">>),
    Header(<<"text/plain">>),
    Header(<<"Text/Plain">>),
    Header(<<"text/plain", ";", "application/json">>),
    Header(<<";", "application/json">>),
    Header(<<"application/json", " ", "application/json-patch+json">>) }
ApiKeys == {NoHeader, Header(<<>>), Header(<<"key-of-u1">>), Header(<<"revoked">>)}
Cookies == {NoHeader, Header(<<"session-of-u1">>), Header(<<"expired">>)}
NotJson == [kind |-> "malformed", elems |-> <<>>]
JsonObject == [kind |-> "object", elems |-> <<>>]
JsonArray(elems) == [kind |-> "array", elems |-> elems]
Bodies == {
    NotJson,
    JsonObject,
    JsonArray(<<>>),
    JsonArray(<<WireOp("replace", Str("/name"), Undef)>>),
    JsonArray(<<WireOp("move", Str("/tags/0"), Str("/tags/1"))>>),
    JsonArray(<<WireOp("replace", Str("/name"), Undef), WireOp("merge", Str("/name"), Undef)>>),
    JsonArray(<<WireOp("remove", Str(""), Undef)>>),
    JsonArray(<<WireOp("copy", Str("/tags/-"), Undef)>>),
    JsonArray(<<WireOp("test", Num("5"), Undef)>>) }
\* What resumeService.patch does with the call: it returns, or throws.
Returned == [thrown |-> FALSE, orpc |-> FALSE, hasStatus |-> FALSE, status |-> 0, code |-> "OK"]
Thrown(orpc, st, code) ==
    [thrown |-> TRUE, orpc |-> orpc, hasStatus |-> st # 0, status |-> st, code |-> code]
PatchOutcomes == {
    Returned,
    Thrown(TRUE, 404, "NOT_FOUND"),
    Thrown(TRUE, 400, "INVALID_PATCH_PATH"),
    Thrown(TRUE, 0, "RESUME_LOCKED"),
    Thrown(FALSE, 0, "Error") }

InitHandler ==
    /\ request \in [contentType : ContentTypes, apiKey : ApiKeys, cookie : Cookies, body : Bodies]
    /\ trace = <<>>
    /\ response = NoResponse
    /\ EngineIdle /\ DraftIdle /\ ReorderIdle

Respond(st, code) == [status |-> st, code |-> code]
HandlerAt(done) == trace = done /\ response = NoResponse

\* if (!isJsonPatchContentType(request.headers.get("content-type"))) return 415
CheckContentType ==
    /\ HandlerAt(<<>>)
    /\ trace' = Append(trace, "contentType")
    /\ response' = IF isJsonPatchContentType(request.contentType) THEN NoResponse
                   ELSE Respond(415, "UNSUPPORTED_MEDIA_TYPE")
    /\ UNCHANGED <<request, engineVars, draftVars, reorderVars>>

\* const user = await resolveUserFromHeaders(request.headers); if (!user) return 401
Authenticate ==
    /\ HandlerAt(<<"contentType">>)
    /\ trace' = Append(trace, "authenticate")
    /\ response' = IF resolveUserFromHeaders(request) = Null THEN Respond(401, "UNAUTHORIZED")
                   ELSE NoResponse
    /\ UNCHANGED <<request, engineVars, draftVars, reorderVars>>

\* payload = await request.json(), 400 when it throws
ParseBody ==
    /\ HandlerAt(<<"contentType", "authenticate">>)
    /\ trace' = Append(trace, "json")
    /\ response' = IF request.body.kind = "malformed" THEN Respond(400, "INVALID_JSON")
                   ELSE NoResponse
    /\ UNCHANGED <<request, engineVars, draftVars, reorderVars>>

\* jsonPatchSchema.safeParse(payload), 400 when it fails
ValidatePatch ==
    /\ HandlerAt(<<"contentType", "authenticate", "json">>)
    /\ trace' = Append(trace, "validate")
    /\ response' = IF jsonPatchSchema(request.body) THEN NoResponse
                   ELSE Respond(400, "INVALID_PATCH")
    /\ UNCHANGED <<request, engineVars, draftVars, reorderVars>>

\* await resumeService.patch(...): Response.json(result), or handleError(error)
RunPatch ==
    /\ HandlerAt(<<"contentType", "authenticate", "json", "validate">>)
    /\ trace' = Append(trace, "patch")
    /\ \E outcome \in PatchOutcomes :
          response' = IF outcome.thrown THEN handleError(outcome) ELSE Respond(200, "OK")
    /\ UNCHANGED <<request, engineVars, draftVars, reorderVars>>

patchHandler == CheckContentType \/ Authenticate \/ ParseBody \/ ValidatePatch \/ RunPatch

NextHandler == patchHandler

SpecHandler == InitHandler /\ [][NextHandler]_vars

\* The requests whose content type names one of the two media types, whatever
\* its letter case and its parameters.
Acceptable ==
    request.contentType \in {
        Header(<<"application/json">>),
        Header(<<"application/json-patch+json">>),
        Header(<<"Application/JSON">>),
        Header(<<"APPLICATION/JSON-PATCH+JSON">>),
        Header(<<"application/json", ";", " ", "charset=utf-8">>),
        Header(<<"application/json-patch+json", " ", ";", "charset=utf-8">>) }
\* The requests that carry the key of a user, or no key and a user's session.
Authenticated ==
    \/ request.apiKey = Header(<<"key-of-u1">>)
    \/ request.apiKey \in {NoHeader, Header(<<>>)} /\ request.cookie = Header(<<"session-of-u1">>)
\* The requests whose body is JSON text of an array of operations.
WellFormed ==
    request.body \in {
        JsonArray(<<>>),
        JsonArray(<<WireOp("replace", Str("/name"), Undef)>>),
        JsonArray(<<WireOp("move", Str("/tags/0"), Str("/tags/1"))>>) }
Did(step) == \E i \in 1..Len(trace) : trace[i] = step
Answered == response # NoResponse
AnsweredWith(st) == Answered /\ response.status = st

\* C23: the handler looks at the content type before anything else and answers
\* 415 to a request of another content type without authenticating, reading the
\* body, validating it or running the patch; a request of an accepted type that
\* is not authenticated gets 401 before its body is read, and an authenticated
\* one whose body is not JSON or not an array of operations gets 400 without
\* the patch being run.
C23_ContentTypeFirst ==
    /\ trace # <<>> => trace[1] = "contentType"
    /\ ~Acceptable /\ trace # <<>> => AnsweredWith(415) /\ trace = <<"contentType">>
    /\ Acceptable => ~AnsweredWith(415)
    /\ Acceptable /\ ~Authenticated /\ Did("authenticate")
          => AnsweredWith(401) /\ trace = <<"contentType", "authenticate">>
    /\ Acceptable /\ Authenticated /\ ~WellFormed /\ Answered
          => AnsweredWith(400) /\ ~Did("patch")

\* A request with a user's key and a valid patch, sent as text/plain with a
\* parameter that names application/json, has been answered 415.
C23_Witness ==
    /\ request.contentType = Header(<<"text/plain", ";", "application/json">>)
    /\ Authenticated /\ WellFormed
    /\ AnsweredWith(415) /\ trace = <<"contentType">>

(***************************************************************************)
(* draftService.  A draft's data is its basics.name and the items of its   *)
(* skills section; an item is a record of its id and the fields it has.    *)
(* The table is a sequence of rows, a row's id its position.               *)
(***************************************************************************)
Users == {"u1", "u2"}
Draft(name, skills) == [name |-> name, skills |-> skills]
NoRow == [deleted |-> TRUE, userId |-> "none", data |-> NoData]
DraftRow(userId, data) == [deleted |-> FALSE, userId |-> userId, data |-> data]

\* { ...a, ...b }
Spread(a, b) == [k \in DOMAIN a \cup DOMAIN b |-> IF k \in DOMAIN b THEN b[k] ELSE a[k]]

RECURSIVE filter(_, _)
\* items.filter((item) => keep(item.id)), keep given as the set of ids kept
filter(list, keep) ==
    IF list = <<>> THEN <<>>
    ELSE (IF list[1].id \in keep THEN <<list[1]>> ELSE <<>>) \o filter(Tail(list), keep)

\* nextItems.findIndex((item) => item.id === id), 0 for -1
findIndex(list, id) ==
    IF \E i \in 1..Len(list) : list[i].id = id
    THEN CHOOSE i \in 1..Len(list) : list[i].id = id /\ \A j \in 1..(i - 1) : list[j].id # id
    ELSE 0

\* createEmptyItemForSection("skills", id)
createEmpty(id) == [id |-> id, name |-> Str("")]

RECURSIVE upsertItems(_, _)
upsertItems(list, patches) ==
    IF patches = <<>> THEN list
    ELSE LET itemPatch == Head(patches)
             index == findIndex(list, itemPatch.id)
         IN upsertItems(IF index > 0
                        THEN [list EXCEPT ![index] = Spread(list[index], itemPatch)]
                        ELSE Append(list, Spread(createEmpty(itemPatch.id), itemPatch)),
                        Tail(patches))

removeItems(list, idList) ==
    filter(list, {list[i].id : i \in 1..Len(list)} \ {idList[i] : i \in 1..Len(idList)})

\* new Map(items.map((item) => [item.id, item])).get(id): the last item of that id
itemsById(list, id) ==
    list[CHOOSE i \in 1..Len(list) : list[i].id = id /\ \A j \in (i + 1)..Len(list) : list[j].id # id]

RECURSIVE orderedItems(_, _)
\* ids.map((id) => itemsById.get(id)).filter(Boolean)
orderedItems(list, idList) ==
    IF idList = <<>> THEN <<>>
    ELSE (IF \E i \in 1..Len(list) : list[i].id = idList[1]
          THEN <<itemsById(list, idList[1])>> ELSE <<>>)
         \o orderedItems(list, Tail(idList))

reorderItems(list, idList) ==
    orderedItems(list, idList)
    \o filter(list, {list[i].id : i \in 1..Len(list)} \ {idList[i] : i \in 1..Len(idList)})

applyItemOpsToList(list, operation) ==
    CASE operation.action = "upsert" -> upsertItems(list, operation.items)
      [] operation.action = "remove" -> removeItems(list, operation.ids)
      [] operation.action = "reorder" -> reorderItems(list, operation.ids)

\* target { kind: "section", section: "skills" }
applyItemOpsOperation(draft, operation) ==
    [draft EXCEPT !.skills = applyItemOpsToList(draft.skills, operation)]

\* path "basics.name"
applySetFieldOperation(draft, operation) ==
    [draft EXCEPT !.name = operation.value]

applyDraftOperation(draft, operation) ==
    CASE operation.op = "setField" -> applySetFieldOperation(draft, operation)
      [] operation.op = "itemOps" -> applyItemOpsOperation(draft, operation)
      [] operation.op = "replaceSection" -> [draft EXCEPT !.skills = operation.data]

RECURSIVE reduceRight(_, _)
reduceRight(operations, draft) ==
    IF operations = <<>> THEN draft
    ELSE reduceRight(SubSeq(operations, 1, Len(operations) - 1),
                     applyDraftOperation(draft, operations[Len(operations)]))
RECURSIVE reduce(_, _)
\* input.operations.reduce(applyDraftOperation, current.data)
reduce(operations, draft) ==
    IF operations = <<>> THEN draft
    ELSE reduce(Tail(operations), applyDraftOperation(draft, Head(operations)))

\* draftDataSchema.safeParse(...).success: the name and every item's name a string
draftDataSchema(draft) ==
    /\ draft.name.t = "str"
    /\ \A i \in 1..Len(draft.skills) : draft.skills[i].name.t = "str"

\* where(and(eq(schema.draft.id, id), eq(schema.draft.userId, userId)))
whereIdOnly(id, userId) ==
    {i \in 1..Len(drafts) : ~drafts[i].deleted /\ i = id}
whereIdAndUserId(id, userId) ==
    {i \in 1..Len(drafts) : ~drafts[i].deleted /\ i = id /\ drafts[i].userId = userId}

\* The calls of the model.
MaxDrafts == 2
MaxCalls == 3
SetName(value) == [op |-> "setField", path |-> "basics.name", value |-> value]
ItemOps(action, list) ==
    [op |-> "itemOps", action |-> action,
     items |-> IF action = "upsert" THEN list ELSE <<>>,
     ids |-> IF action = "upsert" THEN <<>> ELSE list]
ReplaceSkills(list) == [op |-> "replaceSection", section |-> "skills", data |-> list]
Skill(id, name) == [id |-> id, name |-> Str(name)]
OperationLists == {
    <<>>,
    <<SetName(Str("Ada"))>>,
    <<SetName(Str("Ada")), SetName(Str("Bob"))>>,
    <<SetName(Num("123"))>>,
    <<SetName(Num("123")), SetName(Str("Ada"))>>,
    <<ItemOps("upsert", <<Skill("s1", "Logic")>>)>>,
    <<ItemOps("upsert", <<[id |-> "s1"], [id |-> "s2"]>>), ItemOps("reorder", <<"s2", "s1">>)>>,
    <<ItemOps("upsert", <<[id |-> "s2", name |-> Num("7")]>>)>>,
    <<ItemOps("remove", <<"s1">>)>>,
    <<ReplaceSkills(<<Skill("s2", "Maths")>>)>> }
EmptyDraft == Draft(Str(""), <<>>)
DraftInputs == {EmptyDraft, Draft(Str("Zed"), <<Skill("s1", "Logic")>>)}

InitDraft ==
    /\ drafts = <<>>
    /\ calls = [c \in Callers |-> Idle]
    /\ ncalls = 0
    /\ EngineIdle /\ HandlerIdle /\ ReorderIdle

\* A caller makes a call when its last one is over.
Calling(c) == calls[c].pc # "loaded" /\ ncalls < MaxCalls
Over(c, op, id, userId, outcome, res) ==
    /\ calls' = [calls EXCEPT ![c] =
                    [pc |-> "done", op |-> op, id |-> id, userId |-> userId,
                     operations |-> IF calls[c].pc = "loaded" THEN calls[c].operations ELSE <<>>,
                     current |-> IF calls[c].pc = "loaded" THEN calls[c].current ELSE NoData,
                     outcome |-> outcome, result |-> res]]
    /\ ncalls' = IF calls[c].pc = "loaded" THEN ncalls ELSE ncalls + 1

list(c) ==
    /\ Calling(c)
    /\ \E userId \in Users :
          Over(c, "list", 0, userId, "ok",
               [NoResult EXCEPT !.kind = "list",
                                !.ids = {i \in 1..Len(drafts) : ~drafts[i].deleted /\ drafts[i].userId = userId}])
    /\ UNCHANGED <<drafts, engineVars, handlerVars, reorderVars>>

getById(c) ==
    /\ Calling(c)
    /\ \E id \in 1..MaxDrafts, userId \in Users :
          IF whereIdAndUserId(id, userId) = {}
          THEN Over(c, "getById", id, userId, "NOT_FOUND", NoResult)
          ELSE Over(c, "getById", id, userId, "ok",
                    [NoResult EXCEPT !.kind = "draft", !.id = id, !.data = drafts[id].data])
    /\ UNCHANGED <<drafts, engineVars, handlerVars, reorderVars>>

create(c) ==
    /\ Calling(c)
    /\ Len(drafts) < MaxDrafts
    /\ \E userId \in Users, data \in DraftInputs :
          /\ drafts' = Append(drafts, DraftRow(userId, data))
          /\ Over(c, "create", Len(drafts) + 1, userId, "ok",
                  [NoResult EXCEPT !.kind = "id", !.id = Len(drafts) + 1])
    /\ UNCHANGED <<engineVars, handlerVars, reorderVars>>

update(c) ==
    /\ Calling(c)
    /\ \E id \in 1..MaxDrafts, userId \in Users, data \in DraftInputs :
          /\ drafts' = [i \in 1..Len(drafts) |->
                           IF i \in whereIdAndUserId(id, userId)
                           THEN [drafts[i] EXCEPT !.data = data] ELSE drafts[i]]
          /\ Over(c, "update", id, userId,
                  IF whereIdAndUserId(id, userId) = {} THEN "NOT_FOUND" ELSE "ok", NoResult)
    /\ UNCHANGED <<engineVars, handlerVars, reorderVars>>

delete(c) ==
    /\ Calling(c)
    /\ \E id \in 1..MaxDrafts, userId \in Users :
          /\ drafts' = [i \in 1..Len(drafts) |->
                           IF i \in whereIdAndUserId(id, userId) THEN NoRow ELSE drafts[i]]
          /\ Over(c, "delete", id, userId,
                  IF whereIdAndUserId(id, userId) = {} THEN "NOT_FOUND" ELSE "ok", NoResult)
    /\ UNCHANGED <<engineVars, handlerVars, reorderVars>>

\* applyOperations up to its first await: draftService.getById
applyOperationsRead(c) ==
    /\ Calling(c)
    /\ \E id \in 1..MaxDrafts, userId \in Users, operations \in OperationLists :
          IF whereIdAndUserId(id, userId) = {}
          THEN /\ calls' = [calls EXCEPT ![c] =
                               [Idle EXCEPT !.pc = "done", !.op = "applyOperations", !.id = id,
                                            !.userId = userId, !.operations = operations,
                                            !.outcome = "NOT_FOUND"]]
               /\ ncalls' = ncalls + 1
          ELSE /\ calls' = [calls EXCEPT ![c] =
                               [Idle EXCEPT !.pc = "loaded", !.op = "applyOperations", !.id = id,
                                            !.userId = userId, !.operations = operations,
                                            !.current = drafts[id].data, !.outcome = "pending"]]
               /\ ncalls' = ncalls + 1
    /\ UNCHANGED <<drafts, engineVars, handlerVars, reorderVars>>

\* applyOperations from there: reduce, safeParse, and the update statement
applyOperationsWrite(c) ==
    /\ calls[c].pc = "loaded"
    /\ LET call == calls[c]
           nextDraft == reduce(call.operations, call.current)
       IN IF ~draftDataSchema(nextDraft)
          THEN /\ drafts' = drafts
               /\ Over(c, "applyOperations", call.id, call.userId, "DRAFT_INVALID_OPERATION", NoResult)
          ELSE /\ drafts' = [i \in 1..Len(drafts) |->
                                IF i \in whereIdAndUserId(call.id, call.userId)
                                THEN [drafts[i] EXCEPT !.data = nextDraft] ELSE drafts[i]]
               /\ Over(c, "applyOperations", call.id, call.userId, "ok", NoResult)
    /\ UNCHANGED <<engineVars, handlerVars, reorderVars>>

draftService(c) ==
    \/ list(c) \/ getById(c) \/ create(c) \/ update(c) \/ delete(c)
    \/ applyOperationsRead(c) \/ applyOperationsWrite(c)

\* One caller: each call is over before the next is made.
NextDraft == draftService("c1")
SpecDraft == InitDraft /\ [][NextDraft]_vars

\* Two callers: their calls' statements interleave.
NextDraftConcurrent == \E c \in Callers : draftService(c)
SpecDraftConcurrent == InitDraft /\ [][NextDraftConcurrent]_vars

\* The draft after the first n of the operations, each applied to what the one
\* before it left.
RECURSIVE AfterFirst(_, _, _)
AfterFirst(n, operations, draft) ==
    IF n = 0 THEN draft
    ELSE applyDraftOperation(AfterFirst(n - 1, operations, draft), operations[n])
InListOrder(c) == AfterFirst(Len(calls[c].operations), calls[c].operations, calls[c].current)
\* The step in which a caller's applyOperations, having loaded the draft, ends.
Writes(c) == calls[c].pc = "loaded" /\ calls'[c].pc = "done"
StoredData(table, id) == IF id \in 1..Len(table) /\ ~table[id].deleted THEN table[id].data ELSE NoData

\* C24: applyOperations applies the operations in list order to the draft it
\* loaded and validates the outcome once: an invalid outcome throws
\* DRAFT_INVALID_OPERATION and leaves the table as it was, a valid one becomes
\* the draft's stored data and no other row changes.
C24_ApplyThenValidate ==
    [][\A c \in Callers :
          Writes(c) =>
             IF draftDataSchema(InListOrder(c))
             THEN /\ calls'[c].outcome = "ok"
                  /\ StoredData(drafts', calls[c].id) = InListOrder(c)
                  /\ \A i \in 1..Len(drafts) : i # calls[c].id => drafts'[i] = drafts[i]
             ELSE /\ calls'[c].outcome = "DRAFT_INVALID_OPERATION"
                  /\ drafts' = drafts]_vars

\* A batch that sets the name to a number and then to a string has been
\* stored: only its outcome was validated.
C24_Witness ==
    /\ calls["c1"].pc = "done" /\ calls["c1"].outcome = "ok"
    /\ calls["c1"].operations = <<SetName(Num("123")), SetName(Str("Ada"))>>
    /\ calls["c1"].current = Draft(Str("Zed"), <<Skill("s1", "Logic")>>)
    /\ StoredData(drafts, calls["c1"].id) = Draft(Str("Ada"), <<Skill("s1", "Logic")>>)

\* The rows a user does not own, and the step in which a call of a caller ends.
RowsOfOthers(userId) == {i \in 1..Len(drafts) : ~drafts[i].deleted /\ drafts[i].userId # userId}
Ends(c) == calls'[c] # calls[c] /\ calls'[c].pc = "done"

\* C25: a draft is its owner's alone.  Whatever calls came before, a call made
\* with another user's id leaves the draft's row as it was, fails with NOT_FOUND
\* when it names the draft (getById, update, delete, applyOperations), and does
\* not list it (list).
C25_OwnerOnly ==
    [][\A c \in Callers :
          Ends(c) =>
             \A i \in RowsOfOthers(calls'[c].userId) :
                /\ drafts'[i] = drafts[i]
                /\ calls'[c].op \in {"getById", "update", "delete", "applyOperations"} /\ calls'[c].id = i
                      => calls'[c].outcome = "NOT_FOUND"
                /\ calls'[c].op = "list" => i \notin calls'[c].result.ids]_vars

\* u2 has asked to delete the draft of u1, was told NOT_FOUND, and the draft is
\* there with the data it was created with.
C25_Witness ==
    /\ calls["c1"].pc = "done" /\ calls["c1"].op = "delete"
    /\ calls["c1"].userId = "u2" /\ calls["c1"].id = 1
    /\ calls["c1"].outcome = "NOT_FOUND"
    /\ Len(drafts) >= 1
    /\ drafts[1] = DraftRow("u1", Draft(Str("Zed"), <<Skill("s1", "Logic")>>))

(***************************************************************************)
(* reorderItems on its own: a list of items of distinct ids, as upsert     *)
(* builds it, and the ids of a reorder operation, an array of at least one *)
(* string.                                                                 *)
(***************************************************************************)
MaxItems == 3
ItemIds == {"a", "b", "c"}
AskedIds == ItemIds \cup {"x"}
ItemLists ==
    {xs \in UNION {[1..n -> {createEmpty(id) : id \in ItemIds}] : n \in 0..MaxItems} :
        \A i, j \in 1..Len(xs) : i # j => xs[i].id # xs[j].id}
IdLists == UNION {[1..n -> AskedIds] : n \in 1..MaxItems}

InitReorder ==
    /\ given \in [items : ItemLists, ids : IdLists]
    /\ reordered = NotCalled
    /\ EngineIdle /\ HandlerIdle /\ DraftIdle

Reorder ==
    /\ reordered = NotCalled
    /\ reordered' = [called |-> TRUE, items |-> reorderItems(given.items, given.ids)]
    /\ UNCHANGED <<given, engineVars, handlerVars, draftVars>>

NextReorder == Reorder

SpecReorder == InitReorder /\ [][NextReorder]_vars

\* How many times an item is in a list, and the ids of a list in its order.
Count(xs, item) == Cardinality({i \in 1..Len(xs) : xs[i] = item})
IdsOf(xs) == [i \in 1..Len(xs) |-> xs[i].id]
\* The ids a list asks for that the items have, each where it is asked for.
RECURSIVE Known(_, _)
Known(idList, xs) ==
    IF idList = <<>> THEN <<>>
    ELSE (IF \E i \in 1..Len(xs) : xs[i].id = idList[1] THEN <<idList[1]>> ELSE <<>>)
         \o Known(Tail(idList), xs)
IsSubsequence(short, long) ==
    \E pick \in SUBSET (1..Len(long)) :
        /\ Cardinality(pick) = Len(short)
        /\ \A i \in 1..Len(short) :
              short[i] = long[CHOOSE p \in pick : Cardinality({q \in pick : q < p}) = i - 1]

\* C26: reorder returns a permutation of the list: every item once, none dropped
\* and none twice; the listed ids that the list has come first, in the order
\* given, and the items not listed follow in the order they had.
C26_ReorderPermutes ==
    reordered.called =>
        /\ Len(reordered.items) = Len(given.items)
        /\ \A i \in 1..Len(given.items) : Count(reordered.items, given.items[i]) = 1
        /\ \E n \in 0..Len(reordered.items) :
              /\ SubSeq(IdsOf(reordered.items), 1, n) = Known(given.ids, given.items)
              /\ \A i \in (n + 1)..Len(reordered.items) :
                    \A j \in 1..Len(given.ids) : reordered.items[i].id # given.ids[j]
              /\ IsSubsequence(SubSeq(IdsOf(reordered.items), n + 1, Len(reordered.items)), IdsOf(given.items))

\* The operations of a caller's applyOperations, applied in list order to a draft.
Applied(c, draft) == AfterFirst(Len(calls[c].operations), calls[c].operations, draft)

\* C27: applyOperations throws NOT_FOUND whenever the user has no such draft,
\* also when the draft was deleted after applyOperations read it; it does not
\* report success unless its result is the draft's stored data.
C27_NoSuccessWithoutStore ==
    [][\A c \in Callers :
          Ends(c) /\ calls'[c].op = "applyOperations" =>
             /\ whereIdAndUserId(calls'[c].id, calls'[c].userId) = {} => calls'[c].outcome = "NOT_FOUND"
             /\ calls'[c].outcome = "ok" => StoredData(drafts', calls'[c].id) = InListOrder(c)]_vars

\* Caller d's applyOperations read the same data of the same draft as c's, which
\* has not written yet, and what d wrote is what is stored now.
Overlapped(c, d) ==
    /\ calls[d].pc = "done" /\ calls[d].op = "applyOperations" /\ calls[d].outcome = "ok"
    /\ calls[d].id = calls[c].id /\ calls[d].userId = calls[c].userId
    /\ calls[d].current = calls[c].current
    /\ StoredData(drafts, calls[c].id) = Applied(d, calls[c].current)

\* C28: two applyOperations on one draft whose reads and writes interleave leave
\* what one of the two orders of running them one after the other would leave:
\* no update is lost.
C28_NoLostUpdate ==
    [][\A c, d \in Callers :
          c # d /\ Writes(c) /\ calls'[c].outcome = "ok" /\ Overlapped(c, d) =>
             StoredData(drafts', calls[c].id) \in
                {Applied(c, Applied(d, calls[c].current)), Applied(d, Applied(c, calls[c].current))}]_vars

\* The batch consumed so far has an operation other than a test whose path, or
\* whose from if it is a move, lies under the prefix.
Modifies(prefix) ==
    \E i \in DOMAIN patch :
        /\ patch[i].op.op # "test"
        /\ \/ IsPrefix(prefix, patch[i].op.path.raw)
           \/ patch[i].op.op = "move" /\ IsPrefix(prefix, patch[i].op.from.raw)

\* C29: a test under /data/metadata/layout does not count as touching the
\* layout: a batch with an operation under /data/customSections whose only
\* operations under /data/metadata/layout are tests that passed returns the
\* first page's main with the new unreferenced custom-section ids at its end.
C29_TestDoesNotTouch ==
    [][(Returns /\ Touches(CUS) /\ Touches(LAYOUT) /\ ~Modifies(LAYOUT)) =>
          AttachedAtEndOfFirstMain]_vars

\* C30: the caller's patch is never mutated: in every state of the call, the
\* value of every operation consumed so far is structurally equal to the value
\* the caller put in the operation, whatever later operations did inside the
\* working document.
C30_PatchNeverMutated ==
    \A i \in DOMAIN patch :
        patch[i].op.hasValue =>
           \E sent \in {Place(<<>>, patch[i].op.value)} :
              DeepEq(heap, patch[i].value, sent.h, sent.v)

====
